---- MODULE Spec2Model ----
(***************************************************************************)
(* Model of the session layer of RealtimeVoiceChat (server/main.py):       *)
(* the ConnectionManager, the per-connection websocket handler, the        *)
(* background audio buffer flusher and the RunPod bridge.                  *)
(*                                                                         *)
(* The server is a single asyncio event loop: the code between two awaits  *)
(* runs atomically, so every action below is one such stretch of code.     *)
(* Time is counted in whole seconds.                                       *)
(***************************************************************************)
EXTENDS Integers, Sequences, FiniteSets, TLC

\* ------------------------------------------------------------------ bounds
StartTime == 100        \* time.time() when the server starts
StreamFrames == 21      \* streaming workload: frames of its one client
StreamElapsed == 7      \* streaming workload: seconds it is followed
PairFrames == 1         \* two-client workload: frames of each client
PairElapsed == 6        \* two-client workload: seconds it is followed
ControlFrames == 1      \* control workload: frames of its one client
IdleFrames == 2         \* idle workload: frames of its one client
IdleElapsed == 15       \* idle workload: seconds it is followed
MaxDropped == 1         \* binary messages of a wrong size
MaxControls == 1        \* control messages
MaxBreaks == 1          \* sockets that stop working
MaxJobs == 2            \* jobs the backend function is given
MaxChunks == 2          \* chunks the synthesis of one job enqueues

\* ------------------------------------------------------- program constants
BATCH_SAMPLES == 2400
HEADER_BYTES == 8
FRAME_BYTES == BATCH_SAMPLES * 2
MIN_BUFFER_SIZE == FRAME_BYTES + HEADER_BYTES
min_request_interval == 2
min_buffer_size == 96000
FLUSH_SLEEP == 5
FLUSH_MAX_WAIT == 10
timeout == 60
chunk_size == 4096
sample_rate == 24000
maxsize == 0

Clients == {"c1", "c2"}
Flusher == "flusher"
Contexts == Clients \cup {Flusher}

\* ------------------------------------------------------------------ inputs
\* A binary message: its first bytes (at most HEADER_BYTES of them, as byte
\* values) and the rest as one opaque span of `tail' bytes.
Headers ==
    { <<1, 0, 0, 0,  0, 0, 0, 3>>,
      <<0, 0, 1, 0,  1, 0, 0, 2>> }

ShortHead == <<0, 0, 0, 1>>

BinaryShapes ==
    { [hdr |-> h, tail |-> FRAME_BYTES] : h \in Headers }
    \cup { [hdr |-> <<0, 0, 0, 1,  0, 0, 0, 1>>, tail |-> FRAME_BYTES - 1],
           [hdr |-> <<0, 0, 0, 1,  0, 0, 0, 1>>, tail |-> FRAME_BYTES + 1],
           [hdr |-> <<0, 0, 0, 1,  0, 0, 0, 1>>, tail |-> 2400],
           [hdr |-> ShortHead, tail |-> 0] }

ControlTypes == {"tts_start", "tts_stop", "clear_history", "set_speed"}

\* Inbound control messages, as parsed from their JSON text.
ControlMessages ==
    { [type |-> "tts_start"], [type |-> "tts_stop"], [type |-> "clear_history"],
      [type |-> "set_speed", speed |-> 2] }

\* The empty dict.
EmptyMessage == [empty |-> TRUE]

\* Elements of a /stream response: objects with or without an "output" key.
OutA == [output |-> "a"]
OutB == [output |-> "b"]
NoOut == [status |-> "IN_PROGRESS"]

\* Bodies of a /stream response: JSON lists, or a JSON value that is no list.
StreamBodies ==
    { [isList |-> TRUE, items |-> <<>>],
      [isList |-> TRUE, items |-> <<NoOut, OutB, OutA>>],
      [isList |-> FALSE, items |-> <<>>] }

\* What the environment of one run may still do: clients that may connect and
\* from when on, frames each may send, messages of a wrong size, control
\* messages, sockets that may break, and the time up to which the run is
\* followed.  The first client connects shortly before the first sweep: the
\* server does nothing but wait until a client is there.
FirstConnect == StartTime + FLUSH_SLEEP - 1

Only(c, n) == [x \in Clients |-> IF x = c THEN n ELSE 0]

StreamWorkload ==
    [configured |-> TRUE, clients |-> 1, frames |-> Only("c1", StreamFrames),
     bad |-> 0, controls |-> 0, breaks |-> 0,
     open |-> FirstConnect, until |-> StartTime + StreamElapsed]

PairWorkload ==
    [configured |-> TRUE, clients |-> 2, frames |-> [c \in Clients |-> PairFrames],
     bad |-> 0, controls |-> 0, breaks |-> 0,
     open |-> FirstConnect, until |-> StartTime + PairElapsed]

ControlWorkload ==
    [configured |-> TRUE, clients |-> 1, frames |-> Only("c1", ControlFrames),
     bad |-> 0, controls |-> MaxControls, breaks |-> MaxBreaks,
     open |-> FirstConnect, until |-> StartTime + FLUSH_SLEEP]

IdleWorkload ==
    [configured |-> TRUE, clients |-> 1, frames |-> Only("c1", IdleFrames),
     bad |-> MaxDropped, controls |-> 0, breaks |-> 0,
     open |-> FirstConnect, until |-> StartTime + IdleElapsed]

UnconfiguredWorkload ==
    [configured |-> FALSE, clients |-> 1, frames |-> Only("c1", ControlFrames),
     bad |-> 0, controls |-> MaxControls, breaks |-> 0,
     open |-> FirstConnect, until |-> StartTime + FLUSH_SLEEP]

Workloads ==
    { StreamWorkload, PairWorkload, ControlWorkload, IdleWorkload,
      UnconfiguredWorkload }

\* Two clients that send a few frames before the first pass of the sweep and
\* then stay connected, silent.
SilentPairWorkload ==
    [PairWorkload EXCEPT
        !.frames = [c \in Clients |-> IF c = "c1" THEN PairFrames ELSE 1],
        !.until = StartTime + FLUSH_SLEEP]

\* The environments in which the sweep is followed on its own: clients that
\* send frames and then stay connected, silent.
SweepWorkloads ==
    { SilentPairWorkload,
      [IdleWorkload EXCEPT !.bad = 0, !.frames = Only("c1", 1)] }

\* How a POST or GET of the bridge can end: a response whose JSON is read
\* ("ok"), httpx.TimeoutException, another httpx.RequestError, a status that
\* raise_for_status rejects, a body that is no JSON; for the POST also a
\* response without a job id.
HttpOutcomes == {"ok", "timeout", "request_error", "status_error", "bad_json"}
PostOutcomes == HttpOutcomes \cup {"no_id"}

\* ------------------------------------------------------------------- state
VARIABLES
    now,                 \* time.time()
    configured,          \* RUNPOD_ENDPOINT and RUNPOD_API_KEY are both set
    sock,                \* per client: "open" | "broken" (sends raise)
    active_connections,  \* keys of ConnectionManager.active_connections
    client_states,       \* ConnectionManager.client_states
    audio_buffers,       \* ConnectionManager.audio_buffers
    buffer_keys,         \* insertion order of the keys of audio_buffers
    last_request_time,   \* ConnectionManager.last_request_time
    hpc,                 \* per client: position of websocket_endpoint
    call,                \* per context: its call_runpod_function, if any
    fl,                  \* the flusher task
    cleanup_pc,          \* position of ConnectionManager.cleanup
    env,                 \* what the environment may still do
    ndropped,            \* history: binary messages dropped for their size
    naccepted,           \* history: per client, frames accepted so far
    dispatched,          \* history: per client, all payload handed to a dispatch
    failed,              \* history: clients that had a backend call fail
    last_activity,       \* history: per client, when its last frame was accepted
    tts_started,         \* history: clients whose last tts message was tts_start
    sessions,            \* handler.py: processor.sessions
    job,                 \* handler.py: the job the handler is running
    ppc,                 \* handler.py: position of the handler in the job
    events,              \* handler.py: what the job has yielded so far
    loc,                 \* handler.py: locals of process_audio_data_streaming
    tts_thread,          \* handler.py: tts_thread, audio_queue and stop_event
    elapsed,             \* handler.py: time.time() - start_time of the collector
    upcalls,             \* history: calls made on the upsampler, per job
    upsampler,           \* handler.py: the global upsampler, by its calls
    jobs_left            \* jobs the backend may still be given

vars == <<now, configured, sock, active_connections, client_states,
          audio_buffers, buffer_keys, last_request_time, hpc, call, fl,
          cleanup_pc, env, ndropped, naccepted, dispatched, failed, last_activity,
          tts_started, sessions, job, ppc, events, loc, tts_thread, elapsed, upcalls,
          upsampler, jobs_left>>

\* The state of the backend function (handler.py), a process of its own.
pipe == <<sessions, job, ppc, events, loc, tts_thread, elapsed, upcalls,
          upsampler, jobs_left>>

\* The state of the relay server (main.py).
server == <<now, configured, sock, active_connections, client_states,
            audio_buffers, buffer_keys, last_request_time, hpc, call, fl,
            cleanup_pc, env, ndropped, naccepted, dispatched, failed, last_activity,
            tts_started>>

\* ------------------------------------------------------------- frame codec
\* len(audio_data)
MsgLen(m) == Len(m.hdr) + m.tail

\* A size check that only rejects messages that are too short.
chunk_size_at_least(m) == MsgLen(m) >= MIN_BUFFER_SIZE

\* The size check of process_audio_chunk.
chunk_size_ok(m) == MsgLen(m) = MIN_BUFFER_SIZE

\* The same field read little-endian ('<II').
LE32(b, off) ==
    b[off + 4] * 16777216 + b[off + 3] * 65536 + b[off + 2] * 256 + b[off + 1]

\* One big-endian unsigned 32-bit field of struct.unpack('>II', ...).
BE32(b, off) ==
    b[off + 1] * 16777216 + b[off + 2] * 65536 + b[off + 3] * 256 + b[off + 4]

\* struct.unpack('>II', audio_data[:HEADER_BYTES])
unpack(hdr) == [timestamp |-> BE32(hdr, 0), flags |-> BE32(hdr, 4)]

\* bool(flags & 1)
is_tts_playing(flags) == (flags % 2) = 1

\* audio_data[HEADER_BYTES:] of the k-th frame accepted from client c: one
\* span of bytes, identified by where it came from.
audio_samples(c, k, m) == [src |-> c, seq |-> k, n |-> MsgLen(m) - HEADER_BYTES]

\* len(bytearray): the sum of the lengths of the spans appended.
RECURSIVE BufLen(_)
BufLen(buf) ==
    IF buf = <<>> THEN 0 ELSE Head(buf).n + BufLen(Tail(buf))

\* ------------------------------------------------------- session store
\* The mapping f without the key c (del d[c] when present).
DictDel(f, c) == [k \in (DOMAIN f) \ {c} |-> f[k]]

\* A store whose entries all refer to one object: setting one sets them all.
DictSetShared(f, c, v) == [k \in (DOMAIN f) \cup {c} |-> v]

\* The mapping f with f[c] = v (d[c] = v).
DictSet(f, c, v) == [k \in (DOMAIN f) \cup {c} |-> IF k = c THEN v ELSE f[k]]

SeqDel(s, c) == SelectSeq(s, LAMBDA x : x # c)

NewClientState == [is_recording |-> FALSE, tts_playing |-> FALSE, last_audio_time |-> 0]

\* -------------------------------------------------------------- the bridge
\* A payload that reports the ttsPlaying stored for the session.
AudioPayloadStoredFlag(c, buffered_audio, tts_playing, timestamp) ==
    [message_type |-> "audio_batch", client_id |-> c, message |-> EmptyMessage,
     audio_data |-> buffered_audio, audio_length |-> BufLen(buffered_audio),
     tts_playing |-> client_states[c].tts_playing, timestamp |-> timestamp]

\* runpod_payload["input"] of an audio dispatch and of a forwarded control
\* message.
AudioPayload(c, buffered_audio, tts_playing, timestamp) ==
    [message_type |-> "audio_batch", client_id |-> c, message |-> EmptyMessage,
     audio_data |-> buffered_audio, audio_length |-> BufLen(buffered_audio),
     tts_playing |-> tts_playing, timestamp |-> timestamp]

\* A payload that forwards the type of the message only.
ControlPayloadTypeOnly(c, message) ==
    [message_type |-> "control", client_id |-> c,
     message |-> [type |-> message.type]]

ControlPayload(c, message) ==
    [message_type |-> "control", client_id |-> c, message |-> message]

NoCall ==
    [pc |-> "none", client |-> "none", kind |-> "none", posts |-> 0, gets |-> 0,
     body |-> [isList |-> FALSE, items |-> <<>>], i |-> 0, ev |-> <<>>,
     fail |-> "none", payload |-> [message_type |-> "none"]]

\* call_runpod_function up to its first await: the configuration check, then
\* the POST to /run is issued.  Unconfigured, HTTPException is raised at once.
StartCall(c, kind, payload) ==
    IF configured
    THEN [NoCall EXCEPT !.pc = "post", !.client = c, !.kind = kind, !.posts = 1,
                        !.payload = payload]
    ELSE [NoCall EXCEPT !.pc = "raised", !.client = c, !.kind = kind,
                        !.fail = "config", !.payload = payload]

\* The server after construction, in one of the environments ws.
ServerInit(ws) ==
    /\ now = StartTime
    /\ env \in ws
    /\ configured = env.configured
    /\ sock = [c \in Clients |-> "open"]
    /\ active_connections = {}
    /\ client_states = <<>>
    /\ audio_buffers = <<>>
    /\ buffer_keys = <<>>
    /\ last_request_time = <<>>
    /\ hpc = [c \in Clients |-> "new"]
    /\ call = [x \in Contexts |-> NoCall]
    /\ fl = [pc |-> "sleep", wake |-> StartTime + FLUSH_SLEEP,
             current_time |-> 0, todo |-> <<>>]
    /\ cleanup_pc = "no"
    /\ ndropped = 0
    /\ naccepted = [c \in Clients |-> 0]
    /\ dispatched = [c \in Clients |-> <<>>]
    /\ failed = {}
    /\ last_activity = [c \in Clients |-> 0]
    /\ tts_started = {}

\* A job as runpod hands it to handler(job): whether it has an input, and the
\* fields of the input ("" where a field is missing).
NoAudioData == [present |-> FALSE, decodes |-> FALSE, n |-> 0]

NoJob ==
    [has_input |-> FALSE, client_id |-> "", message_type |-> "",
     audio_data |-> NoAudioData, message |-> EmptyMessage]

\* Locals of process_audio_data_streaming.
NoLocals ==
    [transcribed_text |-> "", response_text |-> "", audio_chunks |-> <<>>,
     combined_audio |-> 0, i |-> 0, upsampled_chunks |-> 0]

\* No synthesis thread, an empty queue, the stop event clear.
NoThread == [thread |-> "none", audio_queue |-> <<>>, stop_event |-> FALSE,
             produced |-> 0]

\* The upsampler that initialize_components creates once per container, as
\* far as its callers determine it: whether it has been pushed to since it
\* was created or last flushed.
Flushed == [pending |-> FALSE]

\* The backend function after the module is loaded, with n jobs to come.
BackendInit(n) ==
    /\ sessions = <<>>
    /\ job = NoJob
    /\ ppc = "idle"
    /\ events = <<>>
    /\ loc = NoLocals
    /\ tts_thread = NoThread
    /\ elapsed = 0
    /\ upcalls = <<>>
    /\ upsampler = Flushed
    /\ jobs_left = n

Init == ServerInit(Workloads) /\ BackendInit(0)

\* Time passes.  The sleep of the flusher ends when it is due: the event loop
\* is never blocked, every wait of the server is an await.
Tick ==
    /\ now < env.until
    /\ ~(fl.pc = "sleep" /\ now >= fl.wake)
    /\ now' = now + 1
    /\ UNCHANGED pipe
    /\ UNCHANGED <<configured, tts_started, cleanup_pc, sock, active_connections, client_states,
                   audio_buffers, buffer_keys, last_request_time, hpc, call,
                   fl, env, ndropped, naccepted, dispatched, failed, last_activity>>

\* websocket_endpoint up to its first receive: ConnectionManager.connect
connect(c) ==
    /\ hpc[c] = "new"
    /\ env.clients > 0
    /\ now >= env.open
    /\ c = "c1" \/ hpc["c1"] # "new"
    /\ env' = [env EXCEPT !.clients = @ - 1]
    /\ active_connections' = active_connections \cup {c}
    /\ client_states' = DictSet(client_states, c, NewClientState)
    /\ audio_buffers' = DictSet(audio_buffers, c, <<>>)
    /\ buffer_keys' = Append(SeqDel(buffer_keys, c), c)
    /\ last_request_time' = DictSet(last_request_time, c, 0)
    /\ hpc' = [hpc EXCEPT ![c] = "recv"]
    /\ UNCHANGED pipe
    /\ UNCHANGED <<now, configured, tts_started, cleanup_pc, sock, call, fl, ndropped,
                   naccepted, dispatched, failed, last_activity>>

\* The socket of a client stops working (peer gone, network cut): from now on
\* sends to it raise.
SocketBreak(c) ==
    /\ hpc[c] = "recv"
    /\ sock[c] = "open"
    /\ env.breaks > 0
    /\ env' = [env EXCEPT !.breaks = @ - 1]
    /\ sock' = [sock EXCEPT ![c] = "broken"]
    /\ UNCHANGED pipe
    /\ UNCHANGED <<now, configured, tts_started, cleanup_pc, active_connections, client_states,
                   audio_buffers, buffer_keys, last_request_time, hpc, call,
                   fl, ndropped, naccepted, dispatched, failed, last_activity>>

StoreUnchanged ==
    UNCHANGED <<active_connections, client_states, audio_buffers, buffer_keys,
                last_request_time>>

\* A disconnect that leaves the buffer of the client in the store.
disconnect_keeping_buffer(c) ==
    /\ active_connections' = active_connections \ {c}
    /\ client_states' = DictDel(client_states, c)
    /\ audio_buffers' = audio_buffers
    /\ buffer_keys' = buffer_keys
    /\ last_request_time' = DictDel(last_request_time, c)

\* ConnectionManager.disconnect
disconnect(c) ==
    /\ active_connections' = active_connections \ {c}
    /\ client_states' = DictDel(client_states, c)
    /\ audio_buffers' = DictDel(audio_buffers, c)
    /\ buffer_keys' = SeqDel(buffer_keys, c)
    /\ last_request_time' = DictDel(last_request_time, c)

\* send_to_client: the message reaches the client
Delivered(c) == c \in active_connections /\ sock[c] = "open"

\* A send_to_client whose except clause only logs: no send counts as failed.
SendRaisesIgnored(c) == FALSE

\* send_to_client: send_text raises, the client is disconnected
SendRaises(c) == c \in active_connections /\ sock[c] # "open"

\* A send_to_client whose except clause drops the connection only.
send_to_client_dropping_connection(c) ==
    IF SendRaises(c)
    THEN /\ active_connections' = active_connections \ {c}
         /\ UNCHANGED <<client_states, audio_buffers, buffer_keys,
                         last_request_time>>
    ELSE StoreUnchanged

\* send_to_client, its effect on the session store
send_to_client(c) == IF SendRaises(c) THEN disconnect(c) ELSE StoreUnchanged

\* A send that does not look whether the client is still connected.
DeliverUnchecked(cl, event) == [cl EXCEPT !.ev = Append(@, event)]

\* The events of a job with one more, when it reaches the client.
Deliver(cl, event) ==
    IF Delivered(cl.client) THEN [cl EXCEPT !.ev = Append(@, event)] ELSE cl

ErrorEvent(origin) == [type |-> "error", origin |-> origin]
ChunkEvent(item) == [type |-> "stream_chunk", data |-> item.output]
CompleteEvent == [type |-> "stream_complete"]

\* ------------------------------------------------- the connection handler
\* should_send without its third condition.
should_send_while_playing(time_since_last, buffer_size, tts) ==
    /\ time_since_last >= min_request_interval
    /\ buffer_size >= min_buffer_size

\* should_send of process_audio_chunk
should_send(time_since_last, buffer_size, tts) ==
    /\ time_since_last >= min_request_interval
    /\ buffer_size >= min_buffer_size
    /\ ~tts

\* A handler that hands each message to a task of its own and receives on.
ReceivingWhileCalling(c) == hpc[c] = "recv"

\* websocket_endpoint is at `await websocket.receive()': it has connected and
\* whatever it awaited for the message before has returned.
Receiving(c) == hpc[c] = "recv" /\ call[c].pc = "none"

\* websocket_endpoint receives a binary message: process_audio_chunk, up to
\* its first await (the POST of call_runpod_function) or its return.
process_audio_chunk(c, m) ==
    /\ Receiving(c)
    /\ IF MsgLen(m) = MIN_BUFFER_SIZE
       THEN /\ env.frames[c] > 0
            /\ env' = [env EXCEPT !.frames[c] = @ - 1]
       ELSE /\ env.bad > 0
            /\ env' = [env EXCEPT !.bad = @ - 1]
    /\ IF c \notin active_connections
       THEN /\ StoreUnchanged
            /\ UNCHANGED <<call, ndropped, naccepted, dispatched, last_activity>>
       ELSE IF ~chunk_size_ok(m)
       THEN /\ ndropped' = ndropped + 1
            /\ StoreUnchanged
            /\ UNCHANGED <<call, naccepted, dispatched, last_activity>>
       ELSE LET h == unpack(SubSeq(m.hdr, 1, HEADER_BYTES))
                tts == is_tts_playing(h.flags)
                buf == Append(audio_buffers[c],
                              audio_samples(c, naccepted[c] + 1, m))
                send == should_send(now - last_request_time[c], BufLen(buf), tts)
            IN  /\ client_states' =
                       [client_states EXCEPT ![c].tts_playing = tts,
                                             ![c].last_audio_time = h.timestamp]
                /\ naccepted' = [naccepted EXCEPT ![c] = @ + 1]
                /\ last_activity' = [last_activity EXCEPT ![c] = now]
                /\ ndropped' = ndropped
                /\ UNCHANGED <<active_connections, buffer_keys>>
                /\ IF send
                   THEN /\ audio_buffers' = [audio_buffers EXCEPT ![c] = <<>>]
                        /\ last_request_time' =
                               [last_request_time EXCEPT ![c] = now]
                        /\ dispatched' = [dispatched EXCEPT ![c] = @ \o buf]
                        /\ call' = [call EXCEPT ![c] =
                                   StartCall(c, "threshold",
                                       AudioPayload(c, buf, tts, h.timestamp))]
                   ELSE /\ audio_buffers' = [audio_buffers EXCEPT ![c] = buf]
                        /\ UNCHANGED <<last_request_time, dispatched, call>>
    /\ UNCHANGED pipe
    /\ UNCHANGED <<now, configured, tts_started, cleanup_pc, sock, hpc, fl, failed>>

\* websocket_endpoint receives a control message: handle_control_message, up
\* to its first await.  For tts_start and tts_stop the state of a client that
\* is no longer in the store cannot be updated: the KeyError ends the handling
\* of the message before anything is forwarded.
handle_control_message(c, message) ==
    /\ Receiving(c)
    /\ env.controls > 0
    /\ env' = [env EXCEPT !.controls = @ - 1]
    /\ LET type == message.type
       IN  IF type \in {"tts_start", "tts_stop"} /\ c \notin DOMAIN client_states
           THEN UNCHANGED <<client_states, call>>
           ELSE /\ client_states' =
                       IF type \in {"tts_start", "tts_stop"}
                       THEN [client_states EXCEPT
                                 ![c].tts_playing = (type = "tts_start")]
                       ELSE client_states
                /\ call' = [call EXCEPT ![c] =
                               StartCall(c, "control", ControlPayload(c, message))]
    /\ tts_started' =
           IF c \notin DOMAIN client_states THEN tts_started
           ELSE IF message.type = "tts_start" THEN tts_started \cup {c}
           ELSE IF message.type = "tts_stop" THEN tts_started \ {c}
           ELSE tts_started
    /\ UNCHANGED pipe
    /\ UNCHANGED <<now, configured, cleanup_pc, sock, active_connections, audio_buffers,
                   buffer_keys, last_request_time, hpc, fl, ndropped,
                   naccepted, dispatched, failed, last_activity>>

\* websocket_endpoint: receive raises on a socket that no longer works; the
\* handler disconnects the client and ends.
HandlerExit(c) ==
    /\ Receiving(c)
    /\ sock[c] # "open"
    /\ disconnect(c)
    /\ hpc' = [hpc EXCEPT ![c] = "done"]
    /\ UNCHANGED pipe
    /\ UNCHANGED <<now, configured, tts_started, cleanup_pc, sock, call, fl, env, ndropped,
                   naccepted, dispatched, failed, last_activity>>

\* ------------------------------------------------- call_runpod_function
\* cleanup has called cancel() on the flusher task and the CancelledError has
\* not been raised in it yet: whatever the task awaits, it does not go on
\* from there.
CancelPending(ctx) == ctx = Flusher /\ cleanup_pc = "cancel"

\* A flusher without the except clause around its call: the exception of a
\* failed call is not caught where the pass could go on.
AfterRaiseUncaught(ctx) == "raised"

\* Where an exception that leaves call_runpod_function lands: the handler's
\* except clause sends an error event, the flusher's only logs.
AfterRaise(ctx) == IF ctx = Flusher THEN "ret" ELSE "raised"

\* The first index from i on of an element with an "output" key, or
\* Len(items) + 1: the for loop over stream_data.
RECURSIVE NextOutput(_, _)
NextOutput(items, i) ==
    IF i > Len(items) THEN i
    ELSE IF "output" \in DOMAIN items[i] THEN i
    ELSE NextOutput(items, i + 1)

\* The loop over the stream leaving after its first stream_chunk.
AtElementOnce(cl, i) ==
    LET j == NextOutput(cl.body.items, i)
    IN  IF cl.body.isList /\ j <= Len(cl.body.items) /\ i = 1
        THEN [cl EXCEPT !.pc = "chunk", !.i = j]
        ELSE [cl EXCEPT !.pc = "complete", !.i = 0]

\* Where the loop over the stream stands once element i is the next to look at.
AtElement(cl, i) ==
    LET j == NextOutput(cl.body.items, i)
    IN  IF cl.body.isList /\ j <= Len(cl.body.items)
        THEN [cl EXCEPT !.pc = "chunk", !.i = j]
        ELSE [cl EXCEPT !.pc = "complete", !.i = 0]

\* A bridge that answers a failed start call with a second POST.
FailCallRetry(ctx, cl, outcome, step) ==
    IF step = "start" /\ cl.posts < 2
    THEN [cl EXCEPT !.pc = "post", !.posts = @ + 1]
    ELSE IF outcome \in {"timeout", "request_error", "status_error"}
    THEN [cl EXCEPT !.pc = "err", !.fail = step]
    ELSE [cl EXCEPT !.pc = AfterRaise(ctx), !.fail = step]

\* A bridge that answers a failed read of the stream with a second GET.
FailCallPollAgain(ctx, cl, outcome, step) ==
    IF step = "stream" /\ cl.gets < 2
    THEN [cl EXCEPT !.pc = "get", !.gets = @ + 1]
    ELSE IF outcome \in {"timeout", "request_error", "status_error"}
    THEN [cl EXCEPT !.pc = "err", !.fail = step]
    ELSE [cl EXCEPT !.pc = AfterRaise(ctx), !.fail = step]

\* A call that failed with one of the exceptions call_runpod_function handles
\* (pc "err"), or with one it lets through to its caller.
FailCall(ctx, cl, outcome, step) ==
    IF outcome \in {"timeout", "request_error", "status_error"}
    THEN [cl EXCEPT !.pc = "err", !.fail = step]
    ELSE [cl EXCEPT !.pc = AfterRaise(ctx), !.fail = step]

\* The POST to /run returns or raises; on success the GET of the stream is
\* issued at once.
PostReturns(ctx, outcome) ==
    /\ call[ctx].pc = "post"
    /\ ~CancelPending(ctx)
    /\ call' = [call EXCEPT ![ctx] =
                   IF outcome = "ok"
                   THEN [@ EXCEPT !.pc = "get", !.gets = @ + 1]
                   ELSE FailCall(ctx, @, outcome, "start")]
    /\ failed' = IF outcome = "ok" THEN failed ELSE failed \cup {call[ctx].client}
    /\ StoreUnchanged
    /\ UNCHANGED pipe
    /\ UNCHANGED <<now, configured, tts_started, cleanup_pc, sock, hpc, fl, env, ndropped, naccepted,
                   dispatched, last_activity>>

\* The GET of /stream/<job> returns or raises.
GetReturns(ctx, outcome, body) ==
    /\ call[ctx].pc = "get"
    /\ ~CancelPending(ctx)
    /\ call' = [call EXCEPT ![ctx] =
                   IF outcome = "ok"
                   THEN AtElement([@ EXCEPT !.body = body], 1)
                   ELSE FailCall(ctx, @, outcome, "stream")]
    /\ failed' = IF outcome = "ok" THEN failed ELSE failed \cup {call[ctx].client}
    /\ StoreUnchanged
    /\ UNCHANGED pipe
    /\ UNCHANGED <<now, configured, tts_started, cleanup_pc, sock, hpc, fl, env, ndropped, naccepted,
                   dispatched, last_activity>>

\* One element of the stream is sent to the client as a stream_chunk.
SendChunk(ctx) ==
    /\ call[ctx].pc = "chunk"
    /\ ~CancelPending(ctx)
    /\ LET cl == call[ctx]
       IN  /\ call' = [call EXCEPT ![ctx] =
                   AtElement(Deliver(cl, ChunkEvent(cl.body.items[cl.i])), cl.i + 1)]
           /\ send_to_client(cl.client)
    /\ UNCHANGED pipe
    /\ UNCHANGED <<now, configured, tts_started, cleanup_pc, sock, hpc, fl, env, ndropped, naccepted,
                   dispatched, failed, last_activity>>

\* stream_complete is sent and call_runpod_function returns.
SendComplete(ctx) ==
    /\ call[ctx].pc = "complete"
    /\ ~CancelPending(ctx)
    /\ LET cl == call[ctx]
       IN  /\ call' = [call EXCEPT ![ctx] =
                   [Deliver(cl, CompleteEvent) EXCEPT !.pc = "ret"]]
           /\ send_to_client(cl.client)
    /\ UNCHANGED pipe
    /\ UNCHANGED <<now, configured, tts_started, cleanup_pc, sock, hpc, fl, env, ndropped, naccepted,
                   dispatched, failed, last_activity>>

\* An except clause of call_runpod_function sends its error event and raises
\* HTTPException.
SendError(ctx) ==
    /\ call[ctx].pc = "err"
    /\ ~CancelPending(ctx)
    /\ LET cl == call[ctx]
       IN  /\ call' = [call EXCEPT ![ctx] =
                   [Deliver(cl, ErrorEvent("bridge")) EXCEPT !.pc = AfterRaise(ctx)]]
           /\ send_to_client(cl.client)
    /\ UNCHANGED pipe
    /\ UNCHANGED <<now, configured, tts_started, cleanup_pc, sock, hpc, fl, env, ndropped, naccepted,
                   dispatched, failed, last_activity>>

\* An except clause that closes the session of the client instead.
CallerErrorClosing(c) ==
    /\ call[c].pc = "raised"
    /\ call' = [call EXCEPT ![c] = [@ EXCEPT !.pc = "ret"]]
    /\ disconnect(c)
    /\ UNCHANGED pipe
    /\ UNCHANGED <<now, configured, tts_started, cleanup_pc, sock, hpc, fl, env, ndropped, naccepted,
                   dispatched, failed, last_activity>>

\* The except clause around call_runpod_function in process_audio_chunk and
\* in handle_control_message: an error event is sent to the client.
CallerError(c) ==
    /\ call[c].pc = "raised"
    /\ call' = [call EXCEPT ![c] =
                   [Deliver(@, ErrorEvent("caller")) EXCEPT !.pc = "ret"]]
    /\ send_to_client(c)
    /\ UNCHANGED pipe
    /\ UNCHANGED <<now, configured, tts_started, cleanup_pc, sock, hpc, fl, env, ndropped, naccepted,
                   dispatched, failed, last_activity>>

\* The handler is back at websocket.receive().
HandlerReturn(c) ==
    /\ call[c].pc = "ret"
    /\ call' = [call EXCEPT ![c] = NoCall]
    /\ StoreUnchanged
    /\ UNCHANGED pipe
    /\ UNCHANGED <<now, configured, tts_started, cleanup_pc, sock, hpc, fl, env, ndropped, naccepted,
                   dispatched, failed, last_activity>>

\* ------------------------------------------------------------ the flusher
\* The flush condition with the sleep of the sweep taken for the maximal wait.
flush_due_early(buffer_size, time_since_last) ==
    buffer_size > 0 /\ time_since_last >= FLUSH_SLEEP

\* The flush condition without its look at the buffer.
flush_due_empty(buffer_size, time_since_last) ==
    time_since_last >= FLUSH_MAX_WAIT

\* The flush condition of _audio_buffer_flusher.
flush_due(buffer_size, time_since_last) ==
    buffer_size > 0 /\ time_since_last >= FLUSH_MAX_WAIT

\* The for loop of _audio_buffer_flusher over the clients of todo, with the
\* time t taken at the start of the pass, up to its first await: the first
\* flush that reaches the POST (start), or the end of the list.  Unconfigured,
\* call_runpod_function raises at once and the loop goes on.
RECURSIVE FlushPass(_, _, _, _, _)
FlushPass(todo, t, bufs, lrt, disp) ==
    IF todo = <<>>
    THEN [todo |-> <<>>, bufs |-> bufs, lrt |-> lrt, disp |-> disp,
          start |-> "none", sent |-> <<>>]
    ELSE LET c == Head(todo)
         IN  IF c \notin active_connections
             THEN FlushPass(Tail(todo), t, bufs, lrt, disp)
             ELSE LET last_request == IF c \in DOMAIN lrt THEN lrt[c] ELSE 0
                      buffer_size == BufLen(bufs[c])
                      time_since_last == t - last_request
                  IN  IF flush_due(buffer_size, time_since_last)
                      THEN LET bufs2 == [bufs EXCEPT ![c] = <<>>]
                               lrt2 == DictSet(lrt, c, t)
                               disp2 == [disp EXCEPT ![c] = @ \o bufs[c]]
                           IN  IF configured
                               THEN [todo |-> Tail(todo), bufs |-> bufs2,
                                     lrt |-> lrt2, disp |-> disp2, start |-> c,
                                     sent |-> bufs[c]]
                               ELSE FlushPass(Tail(todo), t, bufs2, lrt2, disp2)
                      ELSE FlushPass(Tail(todo), t, bufs, lrt, disp)

Asleep(wake) == [pc |-> "sleep", wake |-> wake, current_time |-> 0, todo |-> <<>>]

\* A flusher with the outer except clause only: the exception of a failed
\* call ends the pass, and the sessions not yet looked at wait for the next.
RunPassAbandoning(todo, t) ==
    LET r == FlushPass(IF call[Flusher].fail # "none" THEN <<>> ELSE todo, t,
                       audio_buffers, last_request_time, dispatched)
    IN  /\ audio_buffers' = r.bufs
        /\ last_request_time' = r.lrt
        /\ dispatched' = r.disp
        /\ UNCHANGED <<active_connections, client_states, buffer_keys>>
        /\ IF r.start = "none"
           THEN /\ fl' = Asleep(now + FLUSH_SLEEP)
                /\ call' = [call EXCEPT ![Flusher] = NoCall]
           ELSE /\ fl' = [pc |-> "call", wake |-> 0, current_time |-> t,
                          todo |-> r.todo]
                /\ call' = [call EXCEPT ![Flusher] =
                               StartCall(r.start, "flush",
                                   AudioPayload(r.start, r.sent, FALSE, t * 1000))]

\* The flusher runs its loop from todo on and then awaits a call or sleeps.
RunPass(todo, t) ==
    LET r == FlushPass(todo, t, audio_buffers, last_request_time, dispatched)
    IN  /\ audio_buffers' = r.bufs
        /\ last_request_time' = r.lrt
        /\ dispatched' = r.disp
        /\ UNCHANGED <<active_connections, client_states, buffer_keys>>
        /\ IF r.start = "none"
           THEN /\ fl' = Asleep(now + FLUSH_SLEEP)
                /\ call' = [call EXCEPT ![Flusher] = NoCall]
           ELSE /\ fl' = [pc |-> "call", wake |-> 0, current_time |-> t,
                          todo |-> r.todo]
                /\ call' = [call EXCEPT ![Flusher] =
                               StartCall(r.start, "flush",
                                   AudioPayload(r.start, r.sent, FALSE, t * 1000))]

\* asyncio.sleep(5.0) is over: a pass of the sweep begins.
FlusherWake ==
    /\ fl.pc = "sleep"
    /\ now >= fl.wake
    /\ ~CancelPending(Flusher)
    /\ RunPass(buffer_keys, now)
    /\ UNCHANGED pipe
    /\ UNCHANGED <<now, configured, tts_started, cleanup_pc, sock, hpc, env, ndropped, naccepted, failed,
                   last_activity>>

\* call_runpod_function has returned or raised: the pass goes on.
FlusherContinue ==
    /\ fl.pc = "call"
    /\ call[Flusher].pc = "ret"
    /\ ~CancelPending(Flusher)
    /\ RunPass(fl.todo, fl.current_time)
    /\ UNCHANGED pipe
    /\ UNCHANGED <<now, configured, tts_started, cleanup_pc, sock, hpc, env, ndropped, naccepted, failed,
                   last_activity>>

\* ---------------------------------------------------------------- cleanup
\* The flusher task has ended.
Ended == [pc |-> "done", wake |-> 0, current_time |-> 0, todo |-> <<>>]

\* A flusher whose except clause around the call also catches the
\* cancellation: cancelled while it awaits a call, it logs and goes on.
cancelled_caught_in_call(f, cl) ==
    IF f.pc = "call"
    THEN [fl |-> f, call |-> [cl EXCEPT !.pc = "ret", !.fail = "cancelled"]]
    ELSE [fl |-> Ended, call |-> NoCall]

\* The CancelledError raised in the flusher at its await: asleep, or in a
\* call, where no except clause of call_runpod_function or of send_to_client
\* and not the `except Exception' around the call catches it; the clause
\* `except asyncio.CancelledError: break' ends the loop and the task returns.
cancelled(f, cl) == [fl |-> Ended, call |-> NoCall]

\* cleanup up to its first await: the flusher task is cancelled.
cleanup ==
    /\ cleanup_pc = "no"
    /\ cleanup_pc' = "cancel"
    /\ StoreUnchanged
    /\ UNCHANGED pipe
    /\ UNCHANGED <<now, configured, tts_started, sock, hpc, call, fl, env, ndropped,
                   naccepted, dispatched, failed, last_activity>>

\* The flusher task runs again: the CancelledError is raised at its await.
FlusherCancelled ==
    /\ cleanup_pc = "cancel"
    /\ cleanup_pc' = "await"
    /\ LET r == cancelled(fl, call[Flusher])
       IN  /\ fl' = r.fl
           /\ call' = [call EXCEPT ![Flusher] = r.call]
    /\ StoreUnchanged
    /\ UNCHANGED pipe
    /\ UNCHANGED <<now, configured, tts_started, sock, hpc, env, ndropped, naccepted,
                   dispatched, failed, last_activity>>

\* `await self._flusher_task' returns: the task has ended.  cleanup goes on
\* to close the http client.
cleanup_joined ==
    /\ cleanup_pc = "await"
    /\ fl.pc = "done"
    /\ cleanup_pc' = "aclose"
    /\ StoreUnchanged
    /\ UNCHANGED pipe
    /\ UNCHANGED <<now, configured, tts_started, sock, hpc, call, fl, env, ndropped,
                   naccepted, dispatched, failed, last_activity>>

\* http_client.aclose() is over: cleanup returns.
cleanup_returns ==
    /\ cleanup_pc = "aclose"
    /\ cleanup_pc' = "done"
    /\ StoreUnchanged
    /\ UNCHANGED pipe
    /\ UNCHANGED <<now, configured, tts_started, sock, hpc, call, fl, env, ndropped,
                   naccepted, dispatched, failed, last_activity>>

\* ---------------------------------------------------------- specification
Next ==
    \/ Tick
    \/ \E c \in Clients : connect(c)
    \/ \E c \in Clients : SocketBreak(c)
    \/ \E c \in Clients : \E m \in BinaryShapes : process_audio_chunk(c, m)
    \/ \E c \in Clients : \E m \in ControlMessages : handle_control_message(c, m)
    \/ \E c \in Clients : HandlerExit(c)
    \/ \E x \in Contexts : \E o \in PostOutcomes : PostReturns(x, o)
    \/ \E x \in Contexts : \E o \in HttpOutcomes : \E b \in StreamBodies :
           GetReturns(x, o, b)
    \/ \E x \in Contexts : SendChunk(x)
    \/ \E x \in Contexts : SendComplete(x)
    \/ \E x \in Contexts : SendError(x)
    \/ \E c \in Clients : CallerError(c)
    \/ \E c \in Clients : HandlerReturn(c)
    \/ FlusherWake
    \/ FlusherContinue

Spec == Init /\ [][Next]_vars

\* The event loop runs every task that can run, time goes on, and each await
\* of the flusher ends: its sleep after 5 seconds, the POST and the GET of a
\* call by their timeouts (3 and 15 seconds) at the latest, a send by
\* returning or raising.
SweepFairness ==
    /\ WF_vars(Tick)
    /\ WF_vars(FlusherWake)
    /\ WF_vars(FlusherContinue)
    /\ WF_vars(\E o \in PostOutcomes : PostReturns(Flusher, o))
    /\ WF_vars(\E o \in HttpOutcomes : \E b \in StreamBodies :
                   GetReturns(Flusher, o, b))
    /\ WF_vars(SendChunk(Flusher))
    /\ WF_vars(SendComplete(Flusher))
    /\ WF_vars(SendError(Flusher))

\* The server with clients that only send frames of the right size, too few
\* for a threshold dispatch: every call to the backend is one of the sweep.
InitSweep == ServerInit(SweepWorkloads) /\ BackendInit(0)

NextSweep ==
    \/ Tick
    \/ \E c \in Clients : connect(c)
    \/ \E c \in Clients : \E m \in BinaryShapes : process_audio_chunk(c, m)
    \/ \E o \in PostOutcomes : PostReturns(Flusher, o)
    \/ \E o \in HttpOutcomes : \E b \in StreamBodies : GetReturns(Flusher, o, b)
    \/ SendChunk(Flusher)
    \/ SendComplete(Flusher)
    \/ SendError(Flusher)
    \/ FlusherWake
    \/ FlusherContinue

SpecSweep == InitSweep /\ [][NextSweep]_vars /\ SweepFairness

\* The same server when it is shut down at some moment: the lifespan of the
\* application calls cleanup.  The event loop runs the cancelled task and
\* resumes cleanup when what it awaits is over.
StopWorkloads == { SilentPairWorkload }

InitStop == ServerInit(StopWorkloads) /\ BackendInit(0)

NextStop ==
    \/ NextSweep
    \/ cleanup
    \/ FlusherCancelled
    \/ cleanup_joined
    \/ cleanup_returns

StopFairness ==
    /\ SweepFairness
    /\ WF_vars(FlusherCancelled)
    /\ WF_vars(cleanup_joined)
    /\ WF_vars(cleanup_returns)

SpecStop == InitStop /\ [][NextStop]_vars /\ StopFairness

\* The server with one client that streams audio and tells the server when
\* its playback of synthesized speech starts and stops, followed up to the
\* first pass of the sweep.
TalkWorkloads ==
    { [StreamWorkload EXCEPT !.controls = MaxControls, !.until = FirstConnect] }

TtsMessages == { [type |-> "tts_start"], [type |-> "tts_stop"] }

InitTalk == ServerInit(TalkWorkloads) /\ BackendInit(0)

NextTalk ==
    \/ Tick
    \/ \E c \in Clients : connect(c)
    \/ \E c \in Clients : \E m \in BinaryShapes : process_audio_chunk(c, m)
    \/ \E c \in Clients : \E m \in TtsMessages : handle_control_message(c, m)
    \/ \E c \in Clients : \E o \in PostOutcomes : PostReturns(c, o)
    \/ \E c \in Clients : \E o \in HttpOutcomes : \E b \in StreamBodies :
           GetReturns(c, o, b)
    \/ \E c \in Clients : SendChunk(c)
    \/ \E c \in Clients : SendComplete(c)
    \/ \E c \in Clients : SendError(c)
    \/ \E c \in Clients : CallerError(c)
    \/ \E c \in Clients : HandlerReturn(c)

SpecTalk == InitTalk /\ [][NextTalk]_vars

\* ================================================ the backend: handler.py
\* The backend function runs in a process of its own; runpod gives it one job
\* at a time.  handler(job) is a generator: `events' is what it has yielded.

\* --------------------------------------------------------------- its inputs
\* audio_data of a job: missing or empty; a string base64.b64decode rejects;
\* a string that decodes to n bytes.
AudioDatas ==
    { NoAudioData,
      [present |-> TRUE, decodes |-> FALSE, n |-> 0],
      [present |-> TRUE, decodes |-> TRUE, n |-> FRAME_BYTES] }

\* The jobs the handler is given: without an input, without a client_id, an
\* audio batch, a control message, a message type the handler does not know.
Jobs ==
    { NoJob,
      [NoJob EXCEPT !.has_input = TRUE, !.message_type = "audio_batch"],
      [NoJob EXCEPT !.has_input = TRUE, !.message_type = "audio_batch",
                    !.audio_data = [present |-> TRUE, decodes |-> TRUE,
                                    n |-> FRAME_BYTES]],
      [NoJob EXCEPT !.has_input = TRUE, !.client_id = "c1",
                    !.message_type = "ping"] }
    \cup { [NoJob EXCEPT !.has_input = TRUE, !.client_id = "c1",
                         !.message_type = "audio_batch", !.audio_data = a]
             : a \in AudioDatas }
    \cup { [NoJob EXCEPT !.has_input = TRUE, !.client_id = "c1",
                         !.message_type = "control", !.message = m]
             : m \in ControlMessages \cup {EmptyMessage} }

\* Results of the recognition stage, the last one set by its except clause.
Transcriptions == {"hello", "[Speech recognition failed]"}

\* How llm.generate ends, how the synthesis thread ends, what a call of the
\* upsampler gives, the sizes of the chunks the synthesis enqueues, and the
\* seconds that pass between two looks at the clock.
LlmOutcomes == {"ok", "raises"}
ThreadEnds == {"returns", "raises", "blocks"}
UpsamplerOutcomes == {"chunk", "empty", "raises"}
ChunkSizes == {0, 5000}
Waits == {60, 61}

\* The server does nothing while the backend is looked at on its own.
NoWorkload ==
    [configured |-> FALSE, clients |-> 0, frames |-> [c \in Clients |-> 0],
     bad |-> 0, controls |-> 0, breaks |-> 0, open |-> StartTime,
     until |-> StartTime]

\* ----------------------------------------------------------- its events
Audio(kind, n) == [kind |-> kind, n |-> n]
NoAudio == Audio("none", 0)

Event(type, text, audio) == [type |-> type, text |-> text, audio |-> audio]
ErrorOut(message) == Event("error", message, NoAudio)

\* A handler that does not look whether the job names a client.
RejectionAnonymous(j) ==
    IF ~j.has_input THEN "No input data provided"
    ELSE IF j.message_type = "audio_batch"
    THEN (IF ~j.audio_data.present THEN "No audio_data provided" ELSE "")
    ELSE IF j.message_type = "control"
    THEN (IF j.message = EmptyMessage THEN "No control message provided" ELSE "")
    ELSE "Unknown message type"

\* The message of the error with which handler(job) rejects a job, "" for a
\* job it routes on.
Rejection(j) ==
    IF ~j.has_input THEN "No input data provided"
    ELSE IF j.client_id = "" THEN "No client_id provided"
    ELSE IF j.message_type = "audio_batch"
    THEN (IF ~j.audio_data.present THEN "No audio_data provided" ELSE "")
    ELSE IF j.message_type = "control"
    THEN (IF j.message = EmptyMessage THEN "No control message provided" ELSE "")
    ELSE "Unknown message type"

\* get_or_create_session
NewSession == [conversation_history |-> <<>>, audio_buffer |-> 0]

get_or_create_session(client_id) ==
    IF client_id \in DOMAIN sessions THEN sessions ELSE DictSet(sessions, client_id, NewSession)

\* The job is over: the generator is exhausted.
Finish(evs) ==
    /\ events' = evs
    /\ ppc' = "done"

\* handler(job), up to the end of the job or, for an audio batch that decodes,
\* up to the recognition stage of process_audio_data_streaming.
handler(j) ==
    /\ ppc \in {"idle", "done"}
    /\ jobs_left > 0
    /\ jobs_left' = jobs_left - 1
    /\ job' = j
    /\ loc' = NoLocals
    /\ tts_thread' = NoThread
    /\ elapsed' = 0
    /\ upcalls' = <<>>
    /\ upsampler' = upsampler
    /\ IF Rejection(j) # ""
       THEN Finish(<<ErrorOut(Rejection(j))>>) /\ sessions' = sessions
       ELSE IF j.message_type = "control"
       THEN Finish(<<Event("control_response", j.message.type, NoAudio)>>)
            /\ sessions' = sessions
       ELSE IF ~j.audio_data.decodes
       THEN Finish(<<ErrorOut("Audio processing failed")>>) /\ sessions' = sessions
       ELSE /\ sessions' =
                   [get_or_create_session(j.client_id) EXCEPT
                        ![j.client_id].audio_buffer = @ + j.audio_data.n]
            /\ events' = << Event("audio_received", "", NoAudio),
                            Event("audio_preprocessing", "", NoAudio) >>
            /\ ppc' = "recognition"
    /\ UNCHANGED server

\* Step 2: the recognition stage; whatever happens in it, a text results.
speech_recognition(text) ==
    /\ ppc = "recognition"
    /\ loc' = [loc EXCEPT !.transcribed_text = text]
    /\ events' = Append(events, Event("speech_recognition", text, NoAudio))
    /\ ppc' = "llm"
    /\ UNCHANGED <<sessions, job, tts_thread, elapsed, upcalls, upsampler, jobs_left>>
    /\ UNCHANGED server

\* conversation_history after the response stage: the user entry is appended
\* before llm.generate is called, the assistant entry after it has returned.
llm_history(history, text, outcome, response) ==
    IF outcome = "ok"
    THEN history \o << [role |-> "user", content |-> text],
                       [role |-> "assistant", content |-> response] >>
    ELSE Append(history, [role |-> "user", content |-> text])

\* Step 3: the response stage, then the synthesis thread is started and the
\* collector takes its start time.
llm_response(outcome) ==
    /\ ppc = "llm"
    /\ LET response_text ==
               IF outcome = "ok" THEN "hi there"
               ELSE "I'm sorry, I'm having trouble processing your request right now."
           c == job.client_id
       IN  /\ sessions' = [sessions EXCEPT ![c].conversation_history =
                              llm_history(@, loc.transcribed_text, outcome, response_text)]
           /\ loc' = [loc EXCEPT !.response_text = response_text]
           /\ events' = Append(events, Event("llm_response", response_text, NoAudio))
    /\ tts_thread' = [NoThread EXCEPT !.thread = "running"]
    /\ elapsed' = 0
    /\ ppc' = "poll"
    /\ UNCHANGED <<job, upcalls, upsampler, jobs_left>>
    /\ UNCHANGED server

\* ------------------------------------------------- the synthesis collector
Collecting == ppc \in {"poll", "empty"}

\* time.time() - start_time > timeout
deadline_elapsed(t) == t > timeout

\* queue.Queue.full: a queue made without a maxsize (maxsize 0) is never
\* full, and put never waits.
full(q) == 0 < maxsize /\ Len(q) >= maxsize

\* The synthesis thread puts a chunk of n bytes on the queue.
Produce(n) ==
    /\ Collecting
    /\ tts_thread.thread = "running"
    /\ ~full(tts_thread.audio_queue)
    /\ tts_thread.produced < MaxChunks
    /\ tts_thread' =
           [tts_thread EXCEPT
               !.produced = @ + 1,
               !.audio_queue = Append(@, [seq |-> tts_thread.produced + 1, n |-> n,
                                          late |-> deadline_elapsed(elapsed)])]
    /\ UNCHANGED <<sessions, job, ppc, events, loc, elapsed, upcalls, upsampler, jobs_left>>
    /\ UNCHANGED server

\* synthesize returns (the thread ends), raises (tts_worker sets the stop
\* event and the thread ends), or blocks for good.
ProducerEnds(how) ==
    /\ Collecting
    /\ tts_thread.thread = "running"
    /\ tts_thread' =
           [tts_thread EXCEPT
               !.thread = IF how = "blocks" THEN "blocked" ELSE "dead",
               !.stop_event = (how = "raises")]
    /\ UNCHANGED <<sessions, job, ppc, events, loc, elapsed, upcalls, upsampler, jobs_left>>
    /\ UNCHANGED server

\* Time passes while the collector runs. The clock is read only to compare
\* it with the deadline, so it is kept up to the first second past it.
Wait(d) ==
    /\ Collecting
    /\ ~deadline_elapsed(elapsed)
    /\ elapsed' = IF deadline_elapsed(elapsed + d) THEN timeout + 1
                  ELSE elapsed + d
    /\ UNCHANGED <<sessions, job, ppc, events, loc, tts_thread, upcalls, upsampler, jobs_left>>
    /\ UNCHANGED server

\* audio_queue.get(timeout=0.1) returns a chunk.
CollectGet ==
    /\ ppc = "poll"
    /\ tts_thread.audio_queue # <<>>
    /\ loc' = [loc EXCEPT !.audio_chunks = Append(@, Head(tts_thread.audio_queue))]
    /\ tts_thread' = [tts_thread EXCEPT !.audio_queue = Tail(@)]
    /\ UNCHANGED <<sessions, job, ppc, events, elapsed, upcalls, upsampler, jobs_left>>
    /\ UNCHANGED server

\* audio_queue.get(timeout=0.1) raises queue.Empty.
CollectEmpty ==
    /\ ppc = "poll"
    /\ tts_thread.audio_queue = <<>>
    /\ ppc' = "empty"
    /\ UNCHANGED <<sessions, job, events, loc, tts_thread, elapsed, upcalls, upsampler, jobs_left>>
    /\ UNCHANGED server

\* The except clause of the loop: leave when the stop event is set or the
\* thread has ended, or when the deadline has passed; else poll again.
CollectCheck ==
    /\ ppc = "empty"
    /\ IF tts_thread.stop_event \/ tts_thread.thread = "dead"
       THEN ppc' = "join" /\ tts_thread' = tts_thread
       ELSE IF deadline_elapsed(elapsed)
       THEN ppc' = "join" /\ tts_thread' = [tts_thread EXCEPT !.stop_event = TRUE]
       ELSE ppc' = "poll" /\ tts_thread' = tts_thread
    /\ UNCHANGED <<sessions, job, events, loc, elapsed, upcalls, upsampler, jobs_left>>
    /\ UNCHANGED server

\* ------------------------------------------------- assembling the audio
RECURSIVE SumLen(_)
SumLen(chunks) ==
    IF chunks = <<>> THEN 0 ELSE Head(chunks).n + SumLen(Tail(chunks))

\* A fallback that gives no audio.
silence == Audio("tone", 0)

\* The fallback: one second of a sine wave, sample_rate samples of 2 bytes.
test_tone == Audio("tone", sample_rate * 2)

\* The two last yields of a job with the audio audio_b64.
Completion(audio_b64) ==
    << Event("tts_generation", loc.response_text, audio_b64),
       Event("processing_complete", loc.response_text, audio_b64) >>

\* An outer except clause that swallows the exception without an event.
pipeline_fails_silently(evs) == evs

\* The outer except clause of process_audio_data_streaming yields an error.
pipeline_fails(evs) == Append(evs, ErrorOut("Audio processing failed"))

\* tts_thread.join is over: with chunks, they are joined and the upsampling
\* begins; without any, the test tone is used and the job completes.  The
\* thread, its queue, the stop event and the clock are not looked at again.
Assemble ==
    /\ ppc = "join"
    /\ IF loc.audio_chunks # <<>>
       THEN /\ loc' = [loc EXCEPT !.combined_audio = SumLen(loc.audio_chunks),
                                  !.i = 0, !.upsampled_chunks = 0]
            /\ ppc' = IF SumLen(loc.audio_chunks) > 0 THEN "push" ELSE "flush"
            /\ events' = events
       ELSE /\ loc' = loc
            /\ Finish(events \o Completion(test_tone))
    /\ tts_thread' = NoThread
    /\ elapsed' = 0
    /\ UNCHANGED <<sessions, job, upcalls, upsampler, jobs_left>>
    /\ UNCHANGED server

\* upsampler.get_base64_chunk on the piece of chunk_size bytes at offset i.
UpsamplePush(out) ==
    /\ ppc = "push"
    /\ upcalls' = Append(upcalls, [op |-> "push", at |-> loc.i])
    /\ upsampler' = IF out = "raises" THEN upsampler ELSE [pending |-> TRUE]
    /\ IF out = "raises"
       THEN Finish(pipeline_fails(events)) /\ loc' = loc
       ELSE /\ loc' = [loc EXCEPT !.i = @ + chunk_size,
                                  !.upsampled_chunks =
                                      IF out = "chunk" THEN @ + 1 ELSE @]
            /\ ppc' = IF loc.i + chunk_size < loc.combined_audio
                      THEN "push" ELSE "flush"
            /\ events' = events
    /\ UNCHANGED <<sessions, job, tts_thread, elapsed, jobs_left>>
    /\ UNCHANGED server

\* upsampler.flush_base64_chunk, then the audio of the job is put together:
\* the upsampled pieces, or the collected audio when there is none.
UpsampleFlush(out) ==
    /\ ppc = "flush"
    /\ upcalls' = Append(upcalls, [op |-> "flush", at |-> loc.i])
    /\ upsampler' = Flushed
    /\ IF out = "raises"
       THEN Finish(pipeline_fails(events)) /\ loc' = loc
       ELSE LET parts == loc.upsampled_chunks + (IF out = "chunk" THEN 1 ELSE 0)
                audio_b64 == IF parts > 0 THEN Audio("upsampled", parts)
                             ELSE Audio("raw", loc.combined_audio)
            IN  /\ loc' = [loc EXCEPT !.upsampled_chunks = parts]
                /\ Finish(events \o Completion(audio_b64))
    /\ UNCHANGED <<sessions, job, tts_thread, elapsed, jobs_left>>
    /\ UNCHANGED server

InitH == ServerInit({NoWorkload}) /\ BackendInit(MaxJobs)

NextH ==
    \/ \E j \in Jobs : handler(j)
    \/ \E t \in Transcriptions : speech_recognition(t)
    \/ \E o \in LlmOutcomes : llm_response(o)
    \/ \E n \in ChunkSizes : Produce(n)
    \/ \E h \in ThreadEnds : ProducerEnds(h)
    \/ \E d \in Waits : Wait(d)
    \/ CollectGet
    \/ CollectEmpty
    \/ CollectCheck
    \/ Assemble
    \/ \E o \in UpsamplerOutcomes : UpsamplePush(o)
    \/ \E o \in UpsamplerOutcomes : UpsampleFlush(o)

SpecH == InitH /\ [][NextH]_vars

\* ============================================ the bridge and the backend
\* One dispatch of the sweep followed from the server to the backend and
\* back: the POST to /run hands the payload to runpod, which gives it to
\* handler(job) as a job; the GET of /stream/<job> answers with what the job
\* has yielded by then.  The job is one whose recognition gives a text and
\* whose synthesis ends in time.

\* The job runpod makes of a payload: the base64 text of the audio decodes to
\* the bytes that were encoded.
JobOf(payload) ==
    [has_input |-> TRUE, client_id |-> payload.client_id,
     message_type |-> payload.message_type,
     audio_data |-> [present |-> TRUE, decodes |-> TRUE,
                     n |-> payload.audio_length],
     message |-> payload.message]

\* The body of the answer to the GET: one element with an "output" key per
\* event yielded so far, as a JSON list or wrapped in an object.
StreamOf(evs, isList) ==
    [isList |-> isList,
     items |-> IF isList THEN [i \in 1..Len(evs) |-> [output |-> evs[i]]]
               ELSE <<>>]

\* runpod starts the job once the POST has been accepted.
RunJob(x) ==
    /\ call[x].gets = 1
    /\ handler(JobOf(call[x].payload))

\* The GET returns, at whatever moment, with the stream as it is then.
StreamReturns(x) ==
    \E o \in HttpOutcomes : \E isList \in BOOLEAN :
        GetReturns(x, o, StreamOf(events, isList))

BridgeWorkloads == { [ControlWorkload EXCEPT !.controls = 0, !.breaks = 0] }

InitBridge == ServerInit(BridgeWorkloads) /\ BackendInit(1)

NextBridge ==
    \/ Tick
    \/ \E c \in Clients : connect(c)
    \/ \E c \in Clients : \E m \in BinaryShapes : process_audio_chunk(c, m)
    \/ FlusherWake
    \/ FlusherContinue
    \/ \E o \in PostOutcomes : PostReturns(Flusher, o)
    \/ StreamReturns(Flusher)
    \/ SendChunk(Flusher)
    \/ SendComplete(Flusher)
    \/ SendError(Flusher)
    \/ RunJob(Flusher)
    \/ speech_recognition("hello")
    \/ \E o \in LlmOutcomes : llm_response(o)
    \/ Produce(5000)
    \/ ProducerEnds("returns")
    \/ CollectGet
    \/ CollectEmpty
    \/ CollectCheck
    \/ Assemble
    \/ \E o \in UpsamplerOutcomes : UpsamplePush(o)
    \/ \E o \in UpsamplerOutcomes : UpsampleFlush(o)

SpecBridge == InitBridge /\ [][NextBridge]_vars

\* ====================================================== properties checked
\* A step in which a frame of client c is accepted.
AcceptedFrame(c) == naccepted'[c] = naccepted[c] + 1

\* A step in which a buffer of client c is handed to a dispatch.
DispatchOf(c) == dispatched'[c] # dispatched[c]

\* C1: threshold path.  When a frame of a session is accepted, the buffer is
\* dispatched if and only if the buffer with the frame appended holds at least
\* 96000 bytes, at least 2 seconds have passed since the last dispatch and the
\* frame does not say that synthesis is playing; otherwise the frame is only
\* buffered and no call to the backend starts.
C1_ThresholdPath ==
    [][\A c \in Clients : AcceptedFrame(c) =>
          LET size == BufLen(audio_buffers[c]) + (MIN_BUFFER_SIZE - HEADER_BYTES)
              due == /\ size >= 96000
                     /\ now - last_request_time[c] >= 2
                     /\ ~client_states'[c].tts_playing
          IN  IF due
              THEN /\ DispatchOf(c)
                   /\ BufLen(dispatched'[c]) = BufLen(dispatched[c]) + size
                   /\ audio_buffers'[c] = <<>>
                   /\ call[c].pc = "none" /\ call'[c].kind = "threshold"
                   /\ configured => call'[c].pc = "post"
              ELSE /\ ~DispatchOf(c)
                   /\ BufLen(audio_buffers'[c]) = size
                   /\ call' = call]_vars

\* C1 witness: a threshold dispatch of more than the minimal 96000 bytes has
\* started: at an earlier frame the buffer was large enough and was held back.
C1_Witness ==
    \E c \in Clients :
        /\ call[c].kind = "threshold" /\ call[c].pc = "post"
        /\ audio_buffers[c] = <<>>
        /\ BufLen(dispatched[c]) > 96000

\* The sessions a step of the flusher looks at, and the time it compares with.
PassTodo == IF fl.pc = "sleep" THEN buffer_keys ELSE fl.todo
PassTime == IF fl.pc = "sleep" THEN now ELSE fl.current_time
FlusherStep == fl' # fl
Evaluated(c) ==
    /\ c \in active_connections
    /\ \E i \in 1..(Len(PassTodo) - Len(fl'.todo)) : PassTodo[i] = c

AcceptedPayload(c, n) ==
    [k \in 1..n |-> [src |-> c, seq |-> k, n |-> MIN_BUFFER_SIZE - HEADER_BYTES]]

\* C3, first part: for a connected session, what was dispatched so far
\* followed by the buffer is exactly the payload of the accepted frames in
\* arrival order.
C3_NoLossNoDup ==
    \A c \in active_connections :
        dispatched[c] \o audio_buffers[c] = AcceptedPayload(c, naccepted[c])

\* C3: dispatch is atomic with respect to frame arrivals: nothing is lost or
\* sent twice, and right after a dispatch the buffer is empty and
\* lastDispatchTime is the time of the dispatch.
C3_AtomicDispatch ==
    [][\A c \in Clients :
          /\ c \in active_connections' =>
                 dispatched'[c] \o audio_buffers'[c] = AcceptedPayload(c, naccepted'[c])
          /\ DispatchOf(c) =>
                 /\ audio_buffers'[c] = <<>>
                 /\ last_request_time'[c] = now]_vars

\* The calls of call_runpod_function for client c that have not returned.
InFlight(c) ==
    {x \in Contexts : call[x].client = c
                      /\ call[x].pc \in {"post", "get", "chunk", "complete", "err"}}

\* C4: at most one call to the backend is in flight per session.
C4_OneJobInFlight == \A c \in Clients : Cardinality(InFlight(c)) <= 1

\* The session of client c as the store holds it.
Session(c) ==
    IF c \in active_connections
    THEN <<client_states[c], audio_buffers[c], last_request_time[c]>>
    ELSE <<>>

\* C5: a binary message whose length is not 4808 is dropped (env.bad changes
\* in exactly the steps in which such a message is received): buffer,
\* ttsPlaying, lastAudioTimestamp and lastDispatchTime stay as they are, no
\* call to the backend starts, nothing is sent and the session stays connected.
C5_WrongSizeDropped ==
    [][env'.bad # env.bad =>
          \A c \in Clients : \A m \in BinaryShapes :
              (MsgLen(m) # MIN_BUFFER_SIZE /\ process_audio_chunk(c, m)) =>
                  /\ Session(c)' = Session(c)
                  /\ active_connections' = active_connections
                  /\ call' = call
                  /\ dispatched' = dispatched
                  /\ naccepted' = naccepted]_vars

\* C5 witness: a message of a wrong size was dropped on a session that holds
\* buffered audio.
C5_Witness ==
    /\ ndropped > 0
    /\ \E c \in active_connections : audio_buffers[c] # <<>>

\* C6: a message of exactly 4808 bytes on a connected session is decoded:
\* lastAudioTimestamp is its first four bytes read big-endian, ttsPlaying is
\* bit 0 of its next four bytes read big-endian, and its 4800 payload bytes
\* are appended to the end of the buffer (which a dispatch in the same step
\* hands on whole).
C6_FrameDecoded ==
    [][\A c \in active_connections :
          env'.frames[c] # env.frames[c] =>
              \A m \in BinaryShapes :
                  (MsgLen(m) = MIN_BUFFER_SIZE /\ process_audio_chunk(c, m)) =>
                      LET h == m.hdr
                          ts == ((h[1] * 256 + h[2]) * 256 + h[3]) * 256 + h[4]
                          flags == ((h[5] * 256 + h[6]) * 256 + h[7]) * 256 + h[8]
                          grown == Append(audio_buffers[c],
                                          [src |-> c, seq |-> naccepted[c] + 1,
                                           n |-> FRAME_BYTES])
                      IN  /\ client_states'[c].last_audio_time = ts
                          /\ client_states'[c].tts_playing = (flags % 2 = 1)
                          /\ \/ audio_buffers'[c] = grown /\ ~DispatchOf(c)
                             \/ audio_buffers'[c] = <<>>
                                /\ dispatched'[c] = dispatched[c] \o grown]_vars

\* C6 witness: a frame with timestamp bytes 01 00 00 00 and flags 00 00 00 03
\* was decoded after another frame had been buffered.
C6_Witness ==
    \E c \in active_connections :
        /\ client_states[c].last_audio_time = 16777216
        /\ client_states[c].tts_playing
        /\ Len(audio_buffers[c]) >= 2

\* The number of error events among the events ev.
Errors(ev) == Len(SelectSeq(ev, LAMBDA e : e.type = "error"))

Completes(ev) == Len(SelectSeq(ev, LAMBDA e : e.type = "stream_complete"))

\* C7: when the start call or the stream call of a job of the handler
\* (threshold dispatch or control forwarding) fails, the client gets exactly
\* one error event for the job, as its last event, and no stream_complete.
C7_SingleErrorEvent ==
    \A c \in Clients :
        call[c].fail \in {"start", "stream"} =>
            /\ Errors(call[c].ev) <= 1
            /\ Completes(call[c].ev) = 0
            /\ (call[c].pc = "ret" /\ Delivered(c)) =>
                   /\ Errors(call[c].ev) = 1
                   /\ call[c].ev[Len(call[c].ev)].type = "error"

\* C8: the bridge never retries: a call makes at most one POST to /run and
\* at most one GET of the stream, and no GET after a failed POST.
C8_NoRetry ==
    \A x \in Contexts :
        /\ call[x].posts <= 1
        /\ call[x].gets <= 1
        /\ call[x].gets <= call[x].posts
        /\ call[x].fail = "start" => call[x].gets = 0

\* C8 witness: a call whose POST failed has ended after that one POST.
C8_Witness ==
    \E x \in Contexts :
        /\ call[x].pc = "ret" /\ call[x].fail = "start"
        /\ call[x].posts = 1 /\ call[x].gets = 0

\* C9: a backend failure does not close the session: a client that had a
\* call fail and whose socket works is still in the session store, with its
\* state, buffer and lastDispatchTime entries.
C9_FailureKeepsSession ==
    \A c \in failed :
        (sock[c] = "open" /\ hpc[c] = "recv") =>
            /\ c \in active_connections
            /\ c \in DOMAIN client_states
            /\ c \in DOMAIN audio_buffers
            /\ c \in DOMAIN last_request_time

\* C9 witness: after the call of a first dispatch failed, a later frame of
\* the client was buffered and is now being dispatched.
C9_Witness ==
    \E c \in failed :
        /\ call[c].pc = "none"
        /\ call[Flusher].pc = "post" /\ call[Flusher].client = c
        /\ Len(dispatched[c]) = 2
        /\ last_activity[c] > StartTime + FLUSH_SLEEP

\* The events a stream body calls for: one stream_chunk per element that has
\* an output, in order, then stream_complete.
Outputs(body) ==
    IF body.isList THEN SelectSeq(body.items, LAMBDA e : "output" \in DOMAIN e)
    ELSE <<>>

ExpectedEvents(body) ==
    [k \in 1..Len(Outputs(body)) |->
        [type |-> "stream_chunk", data |-> Outputs(body)[k].output]]
    \o <<[type |-> "stream_complete"]>>

IsPrefix(a, b) == Len(a) <= Len(b) /\ a = SubSeq(b, 1, Len(a))

\* C10: for a job whose calls succeeded, the events the client has received
\* are at any moment the first of: the output-bearing elements of the stream
\* in the backend's order, each once, then stream_complete; and all of them
\* once the call has returned, for a client that stayed connected.
C10_StreamForwardedInOrder ==
    \A x \in Contexts :
        (call[x].fail = "none" /\ call[x].pc \in {"chunk", "complete", "ret"}) =>
            /\ IsPrefix(call[x].ev, ExpectedEvents(call[x].body))
            /\ (call[x].pc = "ret" /\ Delivered(call[x].client)) =>
                   call[x].ev = ExpectedEvents(call[x].body)

\* C10 witness: a call has returned after forwarding two outputs of a
\* three-element stream and stream_complete.
C10_Witness ==
    \E x \in Contexts :
        /\ call[x].pc = "ret" /\ call[x].fail = "none"
        /\ Len(call[x].body.items) = 3
        /\ Len(call[x].ev) = 3

\* ------------------------------------------- properties of the backend
\* The job was given to process_audio_data_streaming or was an audio batch
\* the handler turned away.
AudioJob == job.message_type = "audio_batch"

\* The job has got as far as the synthesis stage.
ReachedSynthesis == Len(events) >= 4 /\ events[4].type = "llm_response"

Types(evs) == [i \in 1..Len(evs) |-> evs[i].type]

StageOrder ==
    << "audio_received", "audio_preprocessing", "speech_recognition",
       "llm_response", "tts_generation" >>

Terminal(type) == type \in {"processing_complete", "error"}

\* C11: the events of an audio job are not empty and begin with
\* audio_received, whatever the input: also for audio_data that does not
\* decode and for a request the handler's input checks reject.
C11_AudioReceivedFirst ==
    (AudioJob /\ ppc = "done") =>
        /\ events # <<>>
        /\ events[1].type = "audio_received"

\* C12: the events of an audio job are, at any moment, the stages in their
\* fixed order audio_received, audio_preprocessing, speech_recognition,
\* llm_response, tts_generation, followed by at most one terminal event:
\* error after any number of stages, processing_complete only after
\* tts_generation; nothing follows the terminal event, and a job that is over
\* has one.
C12_StagesThenOneTerminal ==
    AudioJob =>
        LET ts == Types(events)
            n == Len(ts)
        IN  /\ \A i \in 1..n :
                   IF Terminal(ts[i])
                   THEN /\ i = n
                        /\ ts[i] = "processing_complete" => i = Len(StageOrder) + 1
                   ELSE i <= Len(StageOrder) /\ ts[i] = StageOrder[i]
            /\ ppc = "done" => (n >= 1 /\ Terminal(ts[n]))
            /\ ppc # "done" => (n >= 1 => ~Terminal(ts[n]))

\* C12 witness: a job has ended with an error after its first four stages,
\* raised while its audio was upsampled.
C12_Witness ==
    /\ AudioJob /\ ppc = "done"
    /\ Len(events) = 5 /\ events[5].type = "error"
    /\ upcalls # <<>>

\* C13: when the collector loop is left while the producer is blocked (it has
\* enqueued k chunks and never set the stop event), the deadline has elapsed
\* and the output holds, in enqueue order, every chunk that was enqueued
\* before the deadline had elapsed.
C13_DeadlineReturnsAllChunks ==
    (ppc = "join" /\ tts_thread.thread = "blocked") =>
        /\ deadline_elapsed(elapsed)
        /\ \A i \in 1..Len(loc.audio_chunks) : loc.audio_chunks[i].seq = i
        /\ \A i \in 1..Len(tts_thread.audio_queue) : tts_thread.audio_queue[i].late

\* C14: the collector stops draining once the deadline has elapsed: its output
\* holds no chunk that was enqueued after the deadline had elapsed.
C14_DeadlineStopsDraining ==
    \A i \in 1..Len(loc.audio_chunks) : ~loc.audio_chunks[i].late

\* C15: a job whose synthesis stage gave no chunk completes with the fallback
\* audio: after llm_response it yields tts_generation with audio that is not
\* empty, then processing_complete with the same audio, and no error.
C15_FallbackCompletes ==
    (ppc = "done" /\ ReachedSynthesis /\ loc.audio_chunks = <<>>) =>
        /\ Types(events) = StageOrder \o <<"processing_complete">>
        /\ events[5].audio.n > 0
        /\ events[6].audio = events[5].audio
        /\ events[5].audio.kind = "tone"

\* C15 witness: a job without any synthesis chunk is over, all six events
\* yielded.
C15_Witness ==
    /\ ppc = "done" /\ ReachedSynthesis
    /\ loc.audio_chunks = <<>>
    /\ Len(events) = 6

\* C16: in a job that reached the synthesis stage and is over, flush was
\* called on the upsampler exactly once, after every push, also when the
\* synthesis gave no chunk.
C16_FlushOnce ==
    (ppc = "done" /\ ReachedSynthesis) =>
        /\ upcalls # <<>>
        /\ upcalls[Len(upcalls)].op = "flush"
        /\ \A i \in 1..(Len(upcalls) - 1) : upcalls[i].op = "push"

\* C17: between jobs the conversation history of every session is a sequence
\* of (user, assistant) pairs: a job whose response stage failed has left
\* nothing in it.
C17_HistoryPairs ==
    ppc \in {"idle", "done"} =>
        \A c \in DOMAIN sessions :
            LET h == sessions[c].conversation_history
            IN  /\ Len(h) % 2 = 0
                /\ \A i \in 1..Len(h) :
                       h[i].role = IF i % 2 = 1 THEN "user" ELSE "assistant"

\* C18: once the backend has processed a clear_history control message of a
\* client, the conversation history of that client is empty.
C18_ClearHistoryEmpties ==
    (ppc = "done" /\ job.message_type = "control"
                  /\ job.message = [type |-> "clear_history"]) =>
        \/ job.client_id \notin DOMAIN sessions
        \/ sessions[job.client_id].conversation_history = <<>>

\* ------------------------------------------ control messages, disconnect
\* C19: a control message of a connected client starts exactly one call of
\* the bridge, with the payload {message, client_id, message_type "control"}
\* that carries the message as received (its POST is issued when the endpoint
\* is configured); tts_start sets ttsPlaying, tts_stop clears it, the other
\* messages leave the session state alone; the audio buffer and
\* lastDispatchTime do not change and no audio is dispatched.
C19_ControlForwardedOnce ==
    [][env'.controls # env.controls =>
          \A c \in active_connections : \A m \in ControlMessages :
              handle_control_message(c, m) =>
                  /\ call[c].pc = "none"
                  /\ call'[c].kind = "control"
                  /\ call'[c].payload =
                         [message_type |-> "control", client_id |-> c, message |-> m]
                  /\ call'[c].posts = (IF configured THEN 1 ELSE 0)
                  /\ \A x \in Contexts \ {c} : call'[x] = call[x]
                  /\ client_states'[c].tts_playing =
                         (IF m.type = "tts_start" THEN TRUE
                          ELSE IF m.type = "tts_stop" THEN FALSE
                          ELSE client_states[c].tts_playing)
                  /\ client_states'[c].last_audio_time = client_states[c].last_audio_time
                  /\ audio_buffers' = audio_buffers
                  /\ last_request_time' = last_request_time
                  /\ dispatched' = dispatched]_vars

\* C19 witness: a set_speed message of a client with buffered audio is being
\* posted to the backend, its speed with it.
C19_Witness ==
    \E c \in active_connections :
        /\ call[c].kind = "control" /\ call[c].pc = "post"
        /\ call[c].payload.message = [type |-> "set_speed", speed |-> 2]
        /\ audio_buffers[c] # <<>>

\* A step that closes the session of client c.
Closes(c) == c \in active_connections /\ c \notin active_connections'

\* C20: a step that closes a session removes its connection, state, buffer and
\* lastDispatchTime entries, hands no audio to a dispatch and starts no call
\* of the bridge; and audio is only ever dispatched for a client that is
\* connected, so the audio a closed session held is never dispatched.
C20_DisconnectDiscards ==
    [][\A c \in Clients :
          /\ DispatchOf(c) => (c \in active_connections /\ c \in active_connections')
          /\ Closes(c) =>
                 /\ c \notin DOMAIN client_states'
                 /\ c \notin DOMAIN audio_buffers'
                 /\ c \notin DOMAIN last_request_time'
                 /\ dispatched' = dispatched
                 /\ \A x \in Contexts :
                        /\ call'[x].posts <= call[x].posts
                        /\ call[x].pc = "none" => call'[x].pc = "none"]_vars

\* C20 witness: a session was closed while it held audio, and a pass of the
\* sweep that began after the audio had arrived has ended without
\* dispatching it.
C20_Witness ==
    \E c \in Clients :
        /\ c \notin active_connections
        /\ naccepted[c] > Len(dispatched[c])
        /\ fl.pc = "sleep"
        /\ fl.wake > StartTime + FLUSH_SLEEP
        /\ last_activity[c] < fl.wake - FLUSH_SLEEP

\* ------------------------------------------------- closed sessions, sweep
\* The session of client c was closed.
Closed(c) == hpc[c] # "new" /\ c \notin active_connections

\* The positions of a call of the bridge that has not returned to its caller.
Running == {"post", "get", "chunk", "complete", "err", "raised"}

\* C21: once the session of a client is closed, no step recreates an entry of
\* the store for it, accepts a frame of it or dispatches for it; a frame that
\* still arrives changes nothing; a call that was in flight for it goes on to
\* its end (it is never reset while it runs), delivers no event and changes
\* no entry of the store in any of its steps.
C21_ClosedSessionInert ==
    [][\A c \in Clients : Closed(c) =>
          /\ c \notin active_connections'
          /\ c \notin DOMAIN client_states'
          /\ c \notin DOMAIN audio_buffers'
          /\ c \notin DOMAIN last_request_time'
          /\ naccepted'[c] = naccepted[c]
          /\ dispatched'[c] = dispatched[c]
          /\ env'.frames[c] # env.frames[c] =>
                 /\ call' = call
                 /\ <<client_states, audio_buffers, last_request_time>>' =
                        <<client_states, audio_buffers, last_request_time>>
          /\ \A x \in Contexts :
                 (call[x].client = c /\ call[x].pc \in Running) =>
                     /\ call'[x].pc # "none"
                     /\ call'[x].ev = call[x].ev
                     /\ call'[x] # call[x] =>
                            <<active_connections, client_states, audio_buffers,
                              last_request_time>>' =
                            <<active_connections, client_states, audio_buffers,
                              last_request_time>>]_vars

\* C21 witness: the sweep's call for a client has returned after the client's
\* session was closed: the stream held two outputs, none was delivered.
C21_Witness ==
    \E c \in Clients :
        /\ Closed(c)
        /\ call[Flusher].client = c /\ call[Flusher].pc = "ret"
        /\ call[Flusher].fail = "none"
        /\ Len(call[Flusher].body.items) = 3
        /\ call[Flusher].ev = <<>>

\* A frame arrived for a closed session and was not accepted.
C21_FrameAfterClose ==
    \E c \in Clients :
        /\ Closed(c) /\ hpc[c] = "recv"
        /\ env.frames[c] = 0 /\ naccepted[c] = 0

\* Client c is connected and stays so, has stopped sending, and holds audio
\* for which a pass of the sweep is due: the pass is under way with c still to
\* be looked at, or it is the next one and begins within the time followed.
Stranded(c) ==
    /\ c \in active_connections /\ sock[c] = "open" /\ env.breaks = 0
    /\ env.frames[c] = 0
    /\ audio_buffers[c] # <<>>
    /\ \/ /\ fl.pc = "sleep" /\ fl.wake <= env.until
          /\ fl.wake - last_request_time[c] >= FLUSH_MAX_WAIT
       \/ /\ fl.pc = "call"
          /\ \E i \in 1..Len(fl.todo) : fl.todo[i] = c
          /\ fl.current_time - last_request_time[c] >= FLUSH_MAX_WAIT

\* Every frame accepted from client c has been handed to a dispatch.
AllDispatched(c) == Len(dispatched[c]) = naccepted[c]

\* C22: no audio is stranded.  The buffer of a connected client that has
\* stopped sending is eventually dispatched by the sweep once a pass is due
\* for it, whatever its ttsPlaying is and however the calls the pass makes for
\* other sessions end.
C22_NoAudioStranded ==
    \A c \in Clients : Stranded(c) ~> AllDispatched(c)

\* C22 witness: the sweep dispatches the audio of the second client, whose
\* ttsPlaying is set, in a pass whose call for the first client had failed.
C22_Witness ==
    /\ "c1" \in failed
    /\ call[Flusher].client = "c2" /\ call[Flusher].pc = "post"
    /\ "c2" \in active_connections
    /\ client_states["c2"].tts_playing
    /\ AllDispatched("c2") /\ naccepted["c2"] > 0

\* C23: an idle session is flushed once.  The sweep starts a dispatch for a
\* session (a call for it, its lastDispatchTime set) only when its buffer is
\* not empty, and the dispatch empties the buffer; a buffer only grows when a
\* frame is accepted.  So after the dispatch no later pass starts another one
\* until a new frame has arrived, whatever ttsPlaying is.
C23_IdleFlushedOnce ==
    [][\A c \in active_connections :
          /\ (FlusherStep /\ (\/ last_request_time'[c] # last_request_time[c]
                               \/ call'[Flusher].client = c
                               \/ DispatchOf(c))) =>
                 /\ audio_buffers[c] # <<>>
                 /\ audio_buffers'[c] = <<>>
                 /\ DispatchOf(c)
                 /\ last_request_time'[c] = PassTime
          /\ (c \in active_connections'
                 /\ Len(audio_buffers'[c]) > Len(audio_buffers[c])) =>
                 AcceptedFrame(c)]_vars

\* C23 witness: a session whose ttsPlaying is set was flushed by one pass of
\* the sweep, and a later pass, 10 seconds after that dispatch, has found its
\* buffer empty and has dispatched nothing.
C23_Witness ==
    \E c \in active_connections :
        /\ naccepted[c] > 0 /\ AllDispatched(c)
        /\ audio_buffers[c] = <<>>
        /\ client_states[c].tts_playing
        /\ last_request_time[c] > 0
        /\ fl.pc = "sleep"
        /\ fl.wake >= last_request_time[c] + FLUSH_MAX_WAIT + FLUSH_SLEEP

\* C24: on a session whose accepted frames hold fewer than 96000 payload
\* bytes in all and whose last frame had flag bit 0 clear, no dispatch has
\* been recorded and the buffer holds exactly the payload of those frames.
C24_BelowThresholdBuffered ==
    \A c \in active_connections :
        (/\ naccepted[c] * (MIN_BUFFER_SIZE - HEADER_BYTES) < 96000
         /\ ~client_states[c].tts_playing) =>
            /\ dispatched[c] = <<>>
            /\ BufLen(audio_buffers[c]) =
                   naccepted[c] * (MIN_BUFFER_SIZE - HEADER_BYTES)

\* C25: the session store is consistent in every reachable state: the
\* connections, the client states, the audio buffers and the lastDispatchTime
\* entries have the same keys, one session per connected client.
C25_StoreKeysAgree ==
    /\ DOMAIN client_states = active_connections
    /\ DOMAIN audio_buffers = active_connections
    /\ DOMAIN last_request_time = active_connections
    /\ {buffer_keys[i] : i \in 1..Len(buffer_keys)} = active_connections
    /\ Len(buffer_keys) = Cardinality(active_connections)

\* C25 witness: a send that raised has closed the session of a client that
\* had sent frames, while the handler of its connection is still running.
C25_Witness ==
    \E c \in Clients :
        /\ hpc[c] = "recv" /\ sock[c] = "broken"
        /\ naccepted[c] > 0
        /\ c \notin active_connections
        /\ c \notin DOMAIN audio_buffers

\* ----------------------------------------------------------------- shutdown
\* A step of the sweep: the flusher task or its call moves, or audio is
\* handed to a dispatch.
SweepMoves ==
    \/ fl' # fl
    \/ call'[Flusher] # call[Flusher]
    \/ \E c \in Clients : DispatchOf(c)

\* C26: cleanup stops the sweep cleanly.  Once cleanup has cancelled the
\* flusher task, asleep or awaiting a call to the backend, the task ends and
\* cleanup returns; from the moment the task is cancelled it starts no
\* dispatch, and after cleanup has returned the sweep does nothing at all.
C26_SweepCancelledCleanly ==
    /\ (cleanup_pc = "cancel") ~> (cleanup_pc = "done" /\ fl.pc = "done")
    /\ [][(cleanup_pc # "no" /\ cleanup_pc' = cleanup_pc) =>
              /\ dispatched' = dispatched
              /\ call'[Flusher].posts <= call[Flusher].posts
              /\ cleanup_pc = "done" => ~SweepMoves]_vars

\* C26 witness: cleanup has returned after cancelling the flusher while it
\* awaited a call of its pass, with another session still to be looked at.
C26_Witness ==
    /\ cleanup_pc = "done" /\ fl.pc = "done"
    /\ call[Flusher].pc = "none"
    /\ \E c \in active_connections : audio_buffers[c] # <<>>
    /\ \E c \in active_connections : audio_buffers[c] = <<>> /\ naccepted[c] > 0

\* ------------------------------------------------- streaming to the client
\* The stream_chunk events among the events ev, as the backend events they
\* carry.
ChunksOf(ev) ==
    LET cs == SelectSeq(ev, LAMBDA e : e.type = "stream_chunk")
    IN  [i \in 1..Len(cs) |-> cs[i].data]

\* C27: each stage transition of a job reaches the client as an event of its
\* own, as it happens.  Stated by what that leaves behind: when the job is
\* over and the call of the bridge for it has returned without a failure,
\* the client connected, the client has been sent one stream_chunk for each
\* event the job yielded, in the order of the stages.
C27_EveryStageDelivered ==
    \A x \in Contexts :
        (/\ call[x].pc = "ret" /\ call[x].fail = "none" /\ call[x].body.isList
         /\ Delivered(call[x].client)
         /\ ppc = "done" /\ job.client_id = call[x].client) =>
            ChunksOf(call[x].ev) = events

\* A stream_chunk reaches the client only after the one GET of the stream
\* has returned: no event is delivered while the bridge still awaits it.
C27_DeliveredAfterStream ==
    \A x \in Contexts :
        call[x].pc \in {"post", "get"} => call[x].ev = <<>>

\* --------------------------------------------- upsampler, synthesis queue
\* C28: the calls a job makes on the upsampler are strictly ordered and are
\* its own: the pushes go through the collected audio piece by piece from its
\* start, nothing follows the flush, and when the job makes its first call no
\* push is pending in the upsampler (every earlier job's pushes were followed
\* by that job's flush).
C28_UpsamplerPerJob ==
    [][(upcalls' # upcalls /\ upcalls' # <<>>) =>
          /\ \A i \in 1..Len(upcalls') :
                 /\ upcalls'[i].op = "push" => upcalls'[i].at = (i - 1) * 4096
                 /\ i < Len(upcalls') => upcalls'[i].op = "push"
          /\ upcalls = <<>> => ~upsampler.pending]_vars

\* C29: the synthesis queue is bounded: it has a fixed capacity, and whenever
\* it holds chunks it holds no more than that (the producer waits while it is
\* full).
C29_QueueBounded ==
    tts_thread.audio_queue # <<>> =>
        /\ maxsize > 0
        /\ Len(tts_thread.audio_queue) <= maxsize

\* The producer never waits: with the collector not taking anything, the
\* queue holds every chunk the synthesis has made.
C29_QueueHoldsAll ==
    /\ tts_thread.produced = MaxChunks
    /\ Len(tts_thread.audio_queue) = MaxChunks
    /\ loc.audio_chunks = <<>>

\* C30: no chunk is lost when the producer finishes.  When the collector
\* leaves its loop because the synthesis thread has ended (it returned, or it
\* set the stop event after an error), the queue is empty and the output
\* holds every chunk the thread enqueued, in enqueue order.
C30_NoChunkLostAtExit ==
    (ppc = "join" /\ tts_thread.thread = "dead") =>
        /\ tts_thread.audio_queue = <<>>
        /\ Len(loc.audio_chunks) = tts_thread.produced
        /\ \A i \in 1..Len(loc.audio_chunks) : loc.audio_chunks[i].seq = i

\* ------------------------------------------------- playback and dispatch
\* A step in which the handler of client c starts a threshold dispatch.
ThresholdStarts(c) == call[c].kind # "threshold" /\ call'[c].kind = "threshold"

\* C31: tts_start inhibits the threshold path.  While the last tts message
\* processed for a session is tts_start (no tts_stop has been processed
\* since), no threshold dispatch starts for it, whatever the flags of the
\* frames that arrive.
C31_TtsStartInhibits ==
    [][\A c \in tts_started : ~ThresholdStarts(c)]_vars

\* -------------------------------------------- the channel to the client
\* The client has been sent an event of the job of call x and not yet the
\* event that ends it (stream_complete or error).
MidStream(x) == call[x].ev # <<>> /\ call[x].pc \in {"chunk", "complete"}

\* C32: the events of two jobs of one client are not interleaved on its
\* channel: while the client has part of the events of one job, and not its
\* last, it has been sent no event of another job that is itself not over.
C32_JobsNotInterleaved ==
    \A x, y \in Contexts :
        (x # y /\ call[x].client = call[y].client /\ MidStream(x)) => ~MidStream(y)

\* ------------------------------------------------------ failed dispatches
\* A step in which the POST or the GET of the audio dispatch of call x does
\* not succeed.
DispatchFails(x) ==
    /\ call[x].kind \in {"threshold", "flush"}
    /\ call[x].pc \in {"post", "get"}
    /\ call'[x] # call[x]
    /\ ~(/\ call'[x].fail = "none"
         /\ call'[x].posts = call[x].posts
         /\ \/ call[x].pc = "post" /\ call'[x].pc = "get"
            \/ call[x].pc = "get" /\ call'[x].pc \in {"chunk", "complete"})

\* A later step of a dispatch that failed: its error event, its return.
AfterFailure(x) ==
    /\ call[x].kind \in {"threshold", "flush"}
    /\ call[x].fail # "none"
    /\ call[x].pc \in {"err", "raised", "ret"}
    /\ call'[x] # call[x]

\* C33: a failed dispatch is not rolled back.  In the step in which the
\* backend call of a dispatch fails nothing is submitted again (no further
\* POST or GET), no audio is handed to a dispatch and the buffers and
\* lastDispatchTime entries stay as they are; the steps that follow the
\* failure leave the buffer and lastDispatchTime of the session alone, and
\* the failed call is over after its one POST.  On the threshold path the
\* buffer is still as the dispatch left it, empty.
C33_FailedDispatchNotRolledBack ==
    [][\A x \in Contexts :
          LET c == call[x].client
          IN  /\ DispatchFails(x) =>
                     /\ call'[x].posts = call[x].posts
                     /\ call'[x].gets = call[x].gets
                     /\ call'[x].pc \in {"err", "raised", "ret"}
                     /\ dispatched' = dispatched
                     /\ audio_buffers' = audio_buffers
                     /\ last_request_time' = last_request_time
                     /\ (call[x].kind = "threshold" /\ c \in active_connections)
                            => audio_buffers[c] = <<>>
              /\ AfterFailure(x) =>
                     /\ call'[x].posts <= call[x].posts
                     /\ dispatched'[c] = dispatched[c]
                     /\ c \in active_connections' =>
                            /\ audio_buffers'[c] = audio_buffers[c]
                            /\ last_request_time'[c] = last_request_time[c]]_vars

\* C33 witness: the stream call of a threshold dispatch has failed and the
\* call has returned: the buffer of the session is empty, every frame it sent
\* was handed to the dispatch, lastDispatchTime is the time of the dispatch.
C33_Witness ==
    \E c \in active_connections :
        /\ call[c].kind = "threshold" /\ call[c].pc = "ret"
        /\ call[c].fail = "stream"
        /\ audio_buffers[c] = <<>>
        /\ naccepted[c] > 0 /\ AllDispatched(c)
        /\ last_request_time[c] = last_activity[c]

\* ------------------------------------------------------------ failed sends
\* A step in which call x sends an event to its client: a stream_chunk,
\* stream_complete, or an error event of the bridge or of the caller.
Sends(x) ==
    /\ call[x].pc \in {"chunk", "complete", "err", "raised"}
    /\ call'[x] # call[x]

\* C34: a failed send closes the session and closing is idempotent.  A send
\* to a connected client whose socket no longer works removes all four
\* entries of the client; a send for a client whose session is closed delivers
\* nothing and changes nothing; and when the handler of the connection then
\* ends and disconnects the client a second time, the store stays as it is.
C34_FailedSendCloses ==
    [][/\ \A x \in Contexts :
              LET c == call[x].client
              IN  /\ (Sends(x) /\ c \in active_connections /\ sock[c] = "broken") =>
                         /\ c \notin active_connections'
                         /\ c \notin DOMAIN client_states'
                         /\ c \notin DOMAIN audio_buffers'
                         /\ c \notin DOMAIN last_request_time'
                         /\ call'[x].ev = call[x].ev
                         /\ call'[x].pc # "none"
                  /\ (Sends(x) /\ c \in Clients /\ Closed(c)) =>
                         /\ call'[x].ev = call[x].ev
                         /\ StoreUnchanged
       /\ \A c \in Clients :
              (Closed(c) /\ hpc[c] = "recv" /\ hpc'[c] = "done") =>
                  /\ StoreUnchanged
                  /\ call' = call]_vars

\* C34 witness: the second stream_chunk of a job could not be sent, the
\* socket having stopped working after the first: the session is closed while
\* the handler of the connection still waits for a message.
C34_Witness ==
    \E c \in Clients : \E x \in Contexts :
        /\ Closed(c) /\ hpc[c] = "recv" /\ sock[c] = "broken"
        /\ call[x].client = c /\ call[x].pc = "complete"
        /\ Len(call[x].body.items) = 3
        /\ Len(call[x].ev) = 1

\* The handler of a connection has ended after a failed send had closed the
\* session: the client was disconnected a second time.
C34_ClosedTwice ==
    \E c \in Clients :
        /\ hpc[c] = "done" /\ call[Flusher].client = c
        /\ call[Flusher].pc = "ret" /\ Len(call[Flusher].ev) = 1

\* ------------------------------------------------- one message at a time
\* A step in which the handler of client c takes a message of its connection:
\* a frame of the right size, or a control message that it forwards.
TakesMessage(c) ==
    \/ env'.frames[c] # env.frames[c]
    \/ env'.controls # env.controls /\ call'[c] # call[c]

\* C35: the messages of one connection are handled one at a time.  The
\* handler takes a message only when the call to the backend it made for the
\* message before has returned, so no frame is appended to the buffer while a
\* job the handler started is in flight, and a call of the handler is never
\* replaced by another while it runs.
C35_OneMessageAtATime ==
    [][\A c \in Clients :
          /\ TakesMessage(c) => call[c].pc = "none"
          /\ AcceptedFrame(c) => call[c].pc = "none"
          /\ call[c].pc \in Running =>
                 /\ call'[c].pc # "none"
                 /\ call'[c].kind = call[c].kind
                 /\ call'[c].payload = call[c].payload
                 /\ c \in active_connections' =>
                        Len(audio_buffers'[c]) <= Len(audio_buffers[c])]_vars

\* C35 witness: a threshold dispatch of the handler awaits the stream of its
\* job while the client has a further frame to send; the buffer is empty.
C35_Witness ==
    \E c \in active_connections :
        /\ call[c].kind = "threshold" /\ call[c].pc = "get"
        /\ env.frames[c] > 0
        /\ audio_buffers[c] = <<>>

\* ------------------------------------------------- failures in the sweep
\* The sessions the pass of the sweep has still to look at.
StillTodo(f) == {f.todo[i] : i \in 1..Len(f.todo)}

\* C36: a backend failure during the sweep is isolated.  When the call the
\* sweep made for one session has failed and the flusher runs again, the
\* pass goes on: every session it had still to look at that is connected,
\* holds audio and is due is dispatched in this step or is still to be looked
\* at; the task then awaits a call or sleeps until the next pass.  The events
\* the failed call sent hold no error event but that of the bridge, at most
\* one: the except clause of the sweep sends none.
C36_SweepFailureIsolated ==
    [][(/\ fl.pc = "call" /\ call[Flusher].pc = "ret"
        /\ call[Flusher].fail # "none"
        /\ fl' # fl) =>
          /\ fl'.pc \in {"call", "sleep"}
          /\ fl'.pc = "sleep" => fl'.wake = now + FLUSH_SLEEP
          /\ fl'.pc = "call" => fl'.current_time = fl.current_time
          /\ \A c \in StillTodo(fl) :
                 (/\ c \in active_connections
                  /\ audio_buffers[c] # <<>>
                  /\ fl.current_time - last_request_time[c] >= FLUSH_MAX_WAIT) =>
                     \/ DispatchOf(c) /\ call'[Flusher].client = c
                     \/ c \in StillTodo(fl')
          /\ Errors(call[Flusher].ev) <= 1
          /\ \A i \in 1..Len(call[Flusher].ev) :
                 call[Flusher].ev[i] # ErrorEvent("caller")]_vars

\* C36 witness: the calls the sweep made for two sessions have both failed,
\* in a workload without threshold dispatches and control messages; both
\* clients are still connected and the flusher sleeps until its next pass.
C36_Witness ==
    /\ failed = Clients /\ active_connections = Clients
    /\ \A c \in Clients :
           /\ naccepted[c] > 0 /\ AllDispatched(c)
           /\ BufLen(dispatched[c]) < min_buffer_size
           /\ call[c].pc = "none"
    /\ fl.pc = "sleep" /\ fl.wake > StartTime + FLUSH_SLEEP

\* ------------------------------------------------------------- isolation
\* A step in which a frame, or a control message that is forwarded, of the
\* connection of client c is taken.
FrameOf(c) == env'.frames[c] # env.frames[c]
ControlOf(c) == env'.controls # env.controls /\ call'[c] # call[c]

\* The audio of the payload of call x, none for a control message.
PayloadAudio(cl) ==
    IF cl.payload.message_type = "audio_batch" THEN cl.payload.audio_data ELSE <<>>

Malformed(j) ==
    \/ ~j.has_input
    \/ j.client_id = ""
    \/ j.message_type = "audio_batch" /\ ~j.audio_data.present
    \/ j.message_type = "control" /\ j.message = EmptyMessage
    \/ j.message_type \notin {"audio_batch", "control"}

\* C38: the handler answers a malformed job with exactly one error event and
\* nothing else: no session is created or changed and no stage of the
\* pipeline runs (the job is over at once, nothing was transcribed,
\* synthesized or upsampled); a control job that is well formed is answered
\* with exactly one control_response.
C38_MalformedJobRejected ==
    [][jobs_left' # jobs_left =>
          /\ Malformed(job') =>
                 /\ Len(events') = 1 /\ events'[1].type = "error"
                 /\ sessions' = sessions
                 /\ ppc' = "done"
                 /\ loc' = NoLocals /\ upcalls' = <<>>
                 /\ tts_thread'.thread = "none"
          /\ (~Malformed(job') /\ job'.message_type = "control") =>
                 /\ Len(events') = 1 /\ events'[1].type = "control_response"
                 /\ sessions' = sessions
                 /\ ppc' = "done"]_vars

\* C38 witness: a job without a client_id, its audio well formed, was
\* rejected with one error event after an earlier job had given client c1 a
\* session with a conversation history, which is still there.
C38_Witness ==
    /\ ppc = "done"
    /\ job.has_input /\ job.client_id = "" /\ job.audio_data.decodes
    /\ Len(events) = 1 /\ events[1].type = "error"
    /\ DOMAIN sessions = {"c1"}
    /\ sessions["c1"].conversation_history # <<>>

\* ------------------------------------------------- the submission payload
\* A step in which call x is started.
CallStarts(x) ==
    /\ call'[x] # call[x]
    /\ call'[x].pc \in {"post", "raised"}
    /\ call'[x].gets = 0 /\ call'[x].ev = <<>>
    /\ call[x].pc \in {"none", "ret"}

\* C39: the payload of every audio submission is consistent with the buffer
\* it was built from.  When a call is started for an audio dispatch, on the
\* threshold path or by the sweep, its audio_data is what the step hands to
\* the dispatch, audio_length is the number of those bytes, greater than
\* zero and a whole multiple of 4800, the payload names the client of the
\* buffer and carries tts_playing = false.
C39_PayloadConsistent ==
    [][\A x \in Contexts :
          (CallStarts(x) /\ call'[x].kind \in {"threshold", "flush"}) =>
              LET p == call'[x].payload
                  c == call'[x].client
              IN  /\ p.message_type = "audio_batch"
                  /\ p.client_id = c
                  /\ dispatched'[c] = dispatched[c] \o p.audio_data
                  /\ p.audio_length = BufLen(p.audio_data)
                  /\ p.audio_length > 0
                  /\ p.audio_length % 4800 = 0
                  /\ p.tts_playing = FALSE]_vars

\* C39 witness: the sweep submits the two frames, 9600 bytes, of a session
\* whose ttsPlaying is set.
C39_Witness ==
    \E c \in active_connections :
        /\ call[Flusher].pc = "post" /\ call[Flusher].client = c
        /\ call[Flusher].payload.audio_length = 9600
        /\ client_states[c].tts_playing

====
